---------------------------- MODULE Spec2Model ----------------------------
(***************************************************************************)
(* A model of the CLIQ appointment automation (charbel30/cliq).            *)
(*                                                                         *)
(* Components, each with its own specification over the shared variables:  *)
(*   SpecFinder   ElementFinder.findElement and its watchers (utils.ts)     *)
(*                                                                         *)
(* Time is counted in milliseconds.  A timer never fires before it is due; *)
(* the clock does not pass a timer that is due.                            *)
(***************************************************************************)
EXTENDS Integers, Sequences, FiniteSets, TLC

VARIABLES
    now,        \* the clock, ms
    dom,        \* the elements present in the main document
    frameEls,   \* the elements present in the accessible iframe's document
    fe,         \* the findElement call: its arguments and what was observed
    watchers,   \* the promises findElement races, in array order
    race,       \* the promise findElement returns
    windowFetch,\* window.fetch: 0 is the page's own function, c the wrapper
                \* installed by waitForNetworkIdle call c
    xhrOpen,    \* XMLHttpRequest.prototype.open, likewise
    idle,       \* the waitForNetworkIdle calls
    net,        \* the page's requests
    config,     \* AUTOMATION_CONFIG.searchBehavior
    sessions,   \* the AppointmentSearchAutomation objects of the page
    win,        \* the interval timers of the window
    api,        \* the last method called on a session
    runs,       \* the step sequences started in the page
    bg,         \* the background message handler at work
    fl,         \* the field fillInput works on
    href,       \* window.location.href
    uw,         \* the waitForUrlChange call
    acfg,       \* AUTOMATION_CONFIG as it stands
    cu,         \* the last updateConfig call
    inj         \* one execution of the injected script inject-automation.js

envVars    == <<now, dom, frameEls>>
finderVars == <<fe, watchers, race>>
idleVars   == <<windowFetch, xhrOpen, idle, net>>
pageVars   == <<dom, frameEls>>
searchVars == <<config, sessions, win, api>>
seqVars    == <<runs>>
bgVars     == <<bg>>
fillVars   == <<fl>>
urlVars    == <<href, uw>>
cfgVars    == <<acfg, cu>>
injVars    == <<inj>>
vars       == <<now, dom, frameEls, fe, watchers, race,
               windowFetch, xhrOpen, idle, net,
               config, sessions, win, api, runs, bg, fl, href, uw,
               acfg, cu, inj>>

(***************************************************************************)
(* Bounds of the model.                                                    *)
(***************************************************************************)
MaxTime == 3000          \* the clock stops here
MaxMutations == 2        \* page mutations observed in one behaviour
MaxIdleTime == 1000      \* the clock of the network-idle specification stops here
MaxRequests == 2         \* requests the page issues in one behaviour
MaxCap == 3              \* largest maxSearchAttempts tried
MaxAttempts == 4         \* search attempts of one session
MaxInflight == 2         \* search attempts of one session pending at once
MaxTimers == 3           \* interval timers created in one behaviour
MaxValueLen == 2         \* characters of a value given to fillInput
MaxOptions == 2          \* options of a select element
MaxFills == 2            \* fillInput calls on one element
MaxUrlTime == 7200       \* the clock of the URL-wait specification stops here
MaxUpdates == 2          \* updateConfig calls in one behaviour

(***************************************************************************)
(* AUTOMATION_CONFIG.selectors: the selector sets the claims name.         *)
(***************************************************************************)
buttons_search ==
    << "button.h-SearchButton",
       "button.btn-primary:contains('Search')",
       ".btn-primary:contains('Search')",
       "button.btn-primary",
       ".text-center button" >>

buttons_scheduleAppointment ==
    << "a.h-SelectAssureBtn",
       ".ctx-changer[data-type=\"3\"]",
       ".thumbnail.tmbArrow:contains(\"Schedule an appointment\")",
       "a:has(.thumbnail.tmbArrow):contains(\"Schedule an appointment\")",
       "a.h-SelectAssureBtn[data-type=\"3\"]" >>

formFields_searchRadius ==
    << "#perimeterCombo",
       "select[name=\"perimeterCombo\"]",
       "select[id=\"perimeterCombo\"]" >>

SelectorSets ==
    { buttons_search, buttons_scheduleAppointment, formFields_searchRadius }

\* selectors.errorMessages, in the order hasErrorMessage walks it
\* (accessDenied, captchaInvalid, missingFields, invalidDate, anyError).
errorMessages ==
    << ".ErrorMessage_ServicesAccessDenied:not([style*='display: none'])",
       ".ErrorMessage_ServicesAccessDenied:visible",
       ".alert:contains('does not match any RAMQ record')",
       ".ErrorMessage_CaptchaInvalid:not([style*='display: none'])",
       ".ErrorMessage_CaptchaInvalid:visible",
       ".alert:contains('characters you have entered do not match')",
       ".ErrorMessage_FillAllFields:not([style*='display: none'])",
       ".ErrorMessage_FillAllFields:visible",
       ".alert:contains('Please fill out all the fields')",
       ".ErrorMessage_InvalideDateformat:not([style*='display: none'])",
       ".ErrorMessage_InvalideDateformat:visible",
       ".alert:contains('date entered is invalid')",
       ".alert:not([style*='display: none'])",
       ".alert:visible",
       ".ErrorMessage_*:visible" >>

appointmentResults_noResults ==
    << ".no-results-message", ".empty-results",
       "div:contains('No appointments available')" >>

appointmentResults_appointmentItems ==
    << ".appointment-item", ".result-item", ".clinic-result" >>

appointmentResults_resultsContainer ==
    << ".results-container", "#results", ".appointment-results" >>

\* Selectors of the configuration that use the jQuery-only pseudo-classes
\* :contains(...) and :visible.  document.querySelector does not return null
\* for them: it raises a SyntaxError.
JQueryOnlySelectors ==
    { "button.btn-primary:contains('Search')",
      ".btn-primary:contains('Search')",
      ".thumbnail.tmbArrow:contains(\"Schedule an appointment\")",
      "a:has(.thumbnail.tmbArrow):contains(\"Schedule an appointment\")",
      ".ErrorMessage_ServicesAccessDenied:visible",
      ".alert:contains('does not match any RAMQ record')",
      ".ErrorMessage_CaptchaInvalid:visible",
      ".alert:contains('characters you have entered do not match')",
      ".ErrorMessage_FillAllFields:visible",
      ".alert:contains('Please fill out all the fields')",
      ".ErrorMessage_InvalideDateformat:visible",
      ".alert:contains('date entered is invalid')",
      ".alert:visible",
      ".ErrorMessage_*:visible",
      "div:contains('No appointments available')" }

(***************************************************************************)
(* The page.  An element is known by the selectors it matches, its tag and *)
(* the selector texts its text content contains (lower-cased).             *)
(***************************************************************************)
DocOrder ==
    << "btnSearchH", "btnPrimary", "btnLabelled",
       "aSelectAssure", "ctxChanger", "selPerimeter",
       "accessDeniedMsg", "alertBanner", "noResultsMsg", "apptItem",
       "resultsList" >>

Elements == { DocOrder[i] : i \in 1..Len(DocOrder) }

ElMatches(e) ==
    CASE e = "btnSearchH"    -> { "button.h-SearchButton" }
      [] e = "btnPrimary"    -> { "button.btn-primary", ".text-center button" }
      [] e = "btnLabelled"   -> { }
      [] e = "aSelectAssure" -> { "a.h-SelectAssureBtn",
                                  "a.h-SelectAssureBtn[data-type=\"3\"]" }
      [] e = "ctxChanger"    -> { ".ctx-changer[data-type=\"3\"]" }
      [] e = "selPerimeter"  -> { "#perimeterCombo",
                                  "select[name=\"perimeterCombo\"]",
                                  "select[id=\"perimeterCombo\"]" }
      [] e = "accessDeniedMsg" ->
            { ".ErrorMessage_ServicesAccessDenied:not([style*='display: none'])" }
      [] e = "alertBanner"   -> { ".alert:not([style*='display: none'])" }
      [] e = "noResultsMsg"  -> { ".no-results-message" }
      [] e = "apptItem"      -> { ".appointment-item" }
      [] e = "resultsList"   -> { ".results-container" }

ElTag(e) ==
    CASE e \in { "btnSearchH", "btnPrimary", "btnLabelled" } -> "button"
      [] e = "aSelectAssure" -> "a"
      [] e = "selPerimeter"  -> "select"
      [] OTHER               -> "div"

\* btnLabelled is a button whose caption spells out the first search selector.
ElTextHas(e) ==
    IF e = "btnLabelled" THEN { "button.h-SearchButton" } ELSE { }

\* The elements a selector set can find.
Universe(sels) ==
    { e \in Elements :
        \/ \E i \in 1..Len(sels) : sels[i] \in ElMatches(e)
        \/ Len(sels) > 0 /\ sels[1] \in ElTextHas(e) }

FirstInDocOrder(S) ==
    DocOrder[CHOOSE i \in 1..Len(DocOrder) :
                /\ DocOrder[i] \in S
                /\ \A j \in 1..(i - 1) : DocOrder[j] \notin S]

NoEl == "none"

\* document.querySelector(selector): the first matching element, null, or
\* a SyntaxError for a selector the browser cannot parse.
QuerySelector(sel, d) ==
    IF sel \in JQueryOnlySelectors
    THEN [k |-> "throw", el |-> NoEl]
    ELSE LET m == { e \in d : sel \in ElMatches(e) }
         IN  IF m = {} THEN [k |-> "null", el |-> NoEl]
                       ELSE [k |-> "el", el |-> FirstInDocOrder(m)]

\* Array.from(document.querySelectorAll(elementType)).find(el =>
\*     el.textContent.trim().toLowerCase().includes(textContent.toLowerCase()))
FindByText(elementType, textContent, d) ==
    LET m == { e \in d : ElTag(e) = elementType /\ textContent \in ElTextHas(e) }
    IN  IF m = {} THEN [k |-> "null", el |-> NoEl]
                  ELSE [k |-> "el", el |-> FirstInDocOrder(m)]

(***************************************************************************)
(* The iframes of the page, as document.querySelectorAll('iframe') lists   *)
(* them: the first is cross-origin (reading its document throws), the      *)
(* second is same-origin and holds frameEls.                               *)
(***************************************************************************)
Frames == << [access |-> FALSE], [access |-> TRUE] >>

\* (mutant) the frame loop gives up at the first frame it cannot read.
QueryFrames_StopAtThrow(sel, fels) ==
    LET hit == { i \in 1..Len(Frames) :
                    /\ \A j \in 1..i : Frames[j].access
                    /\ QuerySelector(sel, fels).k = "el" }
    IN  IF hit = {} THEN [k |-> "null", el |-> NoEl]
                    ELSE QuerySelector(sel, fels)

\* The frame loop of the watcher: the first frame whose document holds a
\* match; a frame that cannot be read is skipped.
QueryFrames(sel, fels) ==
    LET hit == { i \in 1..Len(Frames) :
                    /\ Frames[i].access
                    /\ QuerySelector(sel, fels).k = "el" }
    IN  IF hit = {} THEN [k |-> "null", el |-> NoEl]
                    ELSE QuerySelector(sel, fels)

(***************************************************************************)
(* The search sessions of the page before any entry point has run          *)
(***************************************************************************)
\* The AppointmentSearchAutomation objects, in the order they are created.
Sessions == { 1, 2 }

NoSession ==
    [ pc |-> "none", continuous |-> FALSE, result |-> "none",
      isSearching |-> FALSE, searchInterval |-> 0, searchAttempts |-> 0,
      ticks |-> 0, inflight |-> 0, everFound |-> FALSE ]

NoOp == [ on |-> FALSE, op |-> "none", prev |-> "none",
          isSearching |-> FALSE, searchInterval |-> 0, searchAttempts |-> 0,
          timers |-> {}, cleared |-> 0 ]

SearchAtRest ==
    /\ config = [ searchInterval |-> 30000, maxSearchAttempts |-> 0,
                  stopOnFound |-> FALSE, location |-> "elsewhere" ]
    /\ sessions = [ s \in Sessions |-> NoSession ]
    /\ win = [ timers |-> {}, nextId |-> 1, cleared |-> 0,
               appointmentSearchRunning |-> FALSE,
               personalInfoRunning |-> FALSE ]
    /\ api = NoOp

\* The step sequences of the page, in the order they are started.
Runs == { 1, 2 }

NoRun ==
    [ kind |-> "none", pc |-> "none", currentStep |-> 0, at |-> 0,
      started |-> << >>, settled |-> 0, threwAt |-> -1, logged |-> 0,
      result |-> "none", escaped |-> FALSE, bannerAt |-> -1 ]

SeqAtRest == runs = [ r \in Runs |-> NoRun ]

undefined == [ t |-> "undefined" ]
Bool(b) == [ t |-> "boolean", v |-> b ]
Str(x) == [ t |-> "string", v |-> x ]

NoRequest ==
    [ pc |-> "idle", name |-> "none", type |-> "none", continuous |-> FALSE,
      page |-> "none", path |-> "none", invoked |-> << >>,
      responses |-> << >>, rejected |-> FALSE ]

BgAtRest == bg = NoRequest

NoField ==
    [ kind |-> "none", realm |-> "top", value |-> << >>, checked |-> FALSE,
      options |-> << >>, selected |-> 0 ]

NoFill ==
    [ pc |-> "idle", el |-> NoField, before |-> NoField, value |-> << >>,
      dispatched |-> << >>, clicked |-> 0, fills |-> 0,
      returned |-> "none" ]

FillAtRest == fl = NoFill

NoUrlWait ==
    [pc |-> "none", timeout |-> 0, start |-> 0, startUrl |-> "none",
     interval |-> FALSE, nextPoll |-> 0, timer |-> FALSE,
     settleTimer |-> FALSE, settleAt |-> 0,
     observed |-> FALSE, differed |-> FALSE,
     resolves |-> 0, rejects |-> 0, settledAt |-> 0]

UrlAtRest == href = "Principale.aspx" /\ uw = NoUrlWait

\* The sections of AUTOMATION_CONFIG and, of each, the fields the model
\* follows.
Sections == { "appointmentData", "searchBehavior", "selectors", "timeouts" }

FieldsOf(s) ==
    CASE s = "appointmentData" -> { "firstName", "searchRadius" }
      [] s = "searchBehavior"  -> { "searchInterval", "maxSearchAttempts",
                                    "stopOnFound" }
      [] s = "selectors"       -> { "buttons", "errorMessages" }
      [] s = "timeouts"        -> { "elementWait", "pageTransition" }

Keys == UNION { { << s, f >> : f \in FieldsOf(s) } : s \in Sections }

\* What reading a property an object does not have gives.
absent == "undefined"

\* The configuration as the module defines it; "shipped" stands for the
\* selector lists of the file.
AUTOMATION_CONFIG ==
    [ k \in Keys |->
        CASE k = << "appointmentData", "firstName" >>       -> "charbel"
          [] k = << "appointmentData", "searchRadius" >>    -> "25"
          [] k = << "searchBehavior", "searchInterval" >>   -> "30000"
          [] k = << "searchBehavior", "maxSearchAttempts" >> -> "0"
          [] k = << "searchBehavior", "stopOnFound" >>      -> "false"
          [] k = << "selectors", "buttons" >>               -> "shipped"
          [] k = << "selectors", "errorMessages" >>         -> "shipped"
          [] k = << "timeouts", "elementWait" >>            -> "30000"
          [] k = << "timeouts", "pageTransition" >>         -> "5000" ]

NoUpdate ==
    [ pc |-> "none", before |-> AUTOMATION_CONFIG,
      partial |-> [ sections |-> { }, named |-> { } ], updates |-> 0 ]

CfgAtRest == acfg = AUTOMATION_CONFIG /\ cu = NoUpdate

\* The page before the script is injected: loaded, no entry point exposed.
NoInjection ==
    [ pc |-> "none", readyState |-> "complete", fn |-> FALSE,
      listener |-> FALSE, timer |-> FALSE, attempts |-> 0, calls |-> << >>,
      gaveUp |-> FALSE ]

InjAtRest == inj = NoInjection

(***************************************************************************)
(* ElementFinder.waitForNetworkIdle                                        *)
(***************************************************************************)
IdlePollMs == 100
IdleQuietMs == 500
IdleTimeouts == { 300, 800 }
IdleCalls == { 1, 2 }
Native == 0

NoCall ==
    [pc |-> "none", timeout |-> 0, start |-> 0,
     originalFetch |-> Native, originalXHROpen |-> Native,
     requestCount |-> 0, lastActivity |-> 0,
     interval |-> FALSE, nextPoll |-> 0, timer |-> FALSE,
     overlapped |-> FALSE, via |-> "none",
     fetchBefore |-> Native, openBefore |-> Native,
     fetchAtResolve |-> Native, openAtResolve |-> Native]

IdleAtRest ==
    /\ windowFetch = Native
    /\ xhrOpen = Native
    /\ idle = [c \in IdleCalls |-> NoCall]
    /\ net = [fetches |-> << >>, xhrBusy |-> FALSE, xhrVia |-> { },
              xhrListeners |-> [c \in IdleCalls |-> 0], issued |-> 0,
              threw |-> 0]

\* The wrappers a call of function value f runs through, outermost first:
\* wrapper c counts the request and calls the function it captured.
RECURSIVE WrapChain(_, _)
WrapChain(f, orig) ==
    IF f = Native THEN { } ELSE { f } \cup WrapChain(orig[f], orig)

FetchChain == WrapChain(windowFetch, [c \in IdleCalls |-> idle[c].originalFetch])
OpenChain  == WrapChain(xhrOpen, [c \in IdleCalls |-> idle[c].originalXHROpen])

\* requestCount++ / requestCount -= n, with lastActivity = Date.now().  The
\* counters of a call whose interval is cleared are never read again and are
\* left alone.
Counted(calls, delta, t) ==
    [c \in IdleCalls |->
        IF c \in DOMAIN delta /\ delta[c] # 0 /\ calls[c].interval
        THEN [calls[c] EXCEPT !.requestCount = @ + delta[c], !.lastActivity = t]
        ELSE calls[c]]

\* The page calls window.fetch.
PageFetch ==
    /\ net.issued < MaxRequests
    /\ \E c \in IdleCalls : idle[c].pc = "pending"
    /\ idle' = Counted(idle, [c \in FetchChain |-> 1], now)
    /\ net' = [net EXCEPT !.fetches = Append(@, FetchChain), !.issued = @ + 1]
    /\ UNCHANGED <<now, windowFetch, xhrOpen, pageVars, finderVars, searchVars, seqVars, bgVars, fillVars, urlVars, cfgVars, injVars>>

\* The page calls window.fetch and the function at the end of the chain
\* throws: every wrapper has counted the request, none has a promise to
\* attach its then() and catch() to, and the exception reaches the page.
PageFetchThrows ==
    /\ net.issued < MaxRequests
    /\ \E c \in IdleCalls : idle[c].pc = "pending"
    /\ idle' = Counted(idle, [c \in FetchChain |-> 1], now)
    /\ net' = [net EXCEPT !.threw = @ + 1, !.issued = @ + 1]
    /\ UNCHANGED <<now, windowFetch, xhrOpen, pageVars, finderVars, searchVars, seqVars, bgVars, fillVars, urlVars, cfgVars, injVars>>

\* A fetch promise is fulfilled or rejected: then() or catch() of every
\* wrapper it went through runs.
FetchSettles(i) ==
    /\ i \in 1..Len(net.fetches)
    /\ \E c \in IdleCalls : idle[c].pc = "pending"
    /\ idle' = Counted(idle, [c \in net.fetches[i] |-> -1], now)
    /\ net' = [net EXCEPT !.fetches =
                  [j \in 1..(Len(@) - 1) |-> IF j < i THEN @[j] ELSE @[j + 1]]]
    /\ UNCHANGED <<now, windowFetch, xhrOpen, pageVars, finderVars, searchVars, seqVars, bgVars, fillVars, urlVars, cfgVars, injVars>>

\* The page calls open() on its XMLHttpRequest object: every wrapper counts
\* the request and adds one more 'loadend' listener to the object.  A
\* request of the object still under way is ended without a 'loadend'.
PageXhrOpen ==
    /\ net.issued < MaxRequests
    /\ \E c \in IdleCalls : idle[c].pc = "pending"
    /\ idle' = Counted(idle, [c \in OpenChain |-> 1], now)
    /\ net' = [net EXCEPT !.xhrBusy = TRUE, !.issued = @ + 1,
                          !.xhrVia = OpenChain,
                          !.xhrListeners = [c \in IdleCalls |->
                              IF c \in OpenChain THEN @[c] + 1 ELSE @[c]]]
    /\ UNCHANGED <<now, windowFetch, xhrOpen, pageVars, finderVars, searchVars, seqVars, bgVars, fillVars, urlVars, cfgVars, injVars>>

\* 'loadend' on the XMLHttpRequest object: every listener added so far runs.
PageXhrLoadend ==
    /\ net.xhrBusy
    /\ \E c \in IdleCalls : idle[c].pc = "pending"
    /\ idle' = Counted(idle, [c \in IdleCalls |-> 0 - net.xhrListeners[c]], now)
    /\ net' = [net EXCEPT !.xhrBusy = FALSE, !.xhrVia = { }]
    /\ UNCHANGED <<now, windowFetch, xhrOpen, pageVars, finderVars, searchVars, seqVars, bgVars, fillVars, urlVars, cfgVars, injVars>>

\* clearInterval(intervalId): checkIdle was the only reader of the counters,
\* which are dropped from the state.
IntervalCleared(call) ==
    [call EXCEPT !.interval = FALSE, !.nextPoll = 0,
                 !.requestCount = 0, !.lastActivity = 0]

\* (mutant) only the idle branch calls resolve().
IdleResolved_IdleOnly(call, f, o, via) ==
    IF call.pc = "pending" /\ via = "idle"
    THEN [call EXCEPT !.pc = "resolved", !.via = via,
                      !.fetchAtResolve = f, !.openAtResolve = o]
    ELSE call

\* resolve(): the first one settles the promise.
IdleResolved(call, f, o, via) ==
    IF call.pc = "pending"
    THEN [call EXCEPT !.pc = "resolved", !.via = via,
                      !.fetchAtResolve = f, !.openAtResolve = o]
    ELSE call

\* waitForNetworkIdle(timeout) up to the return of the promise.
IdleCall(c, t) ==
    /\ idle[c].pc = "none"
    /\ \A b \in IdleCalls : b < c => idle[b].pc # "none"
    /\ LET busy == { b \in IdleCalls : idle[b].pc = "pending" }
       IN  idle' = [b \in IdleCalls |->
                IF b = c
                THEN [NoCall EXCEPT !.pc = "pending", !.timeout = t, !.start = now,
                          !.originalFetch = windowFetch, !.originalXHROpen = xhrOpen,
                          !.fetchBefore = windowFetch, !.openBefore = xhrOpen,
                          !.requestCount = 0, !.lastActivity = now,
                          !.interval = TRUE, !.nextPoll = now + IdlePollMs,
                          !.timer = TRUE, !.overlapped = (busy # { })]
                ELSE IF b \in busy THEN [idle[b] EXCEPT !.overlapped = TRUE]
                ELSE idle[b]]
    /\ windowFetch' = c
    /\ xhrOpen' = c
    /\ UNCHANGED <<now, net, pageVars, finderVars, searchVars, seqVars, bgVars, fillVars, urlVars, cfgVars, injVars>>

\* What the idle branch of checkIdle leaves in window.fetch and
\* XMLHttpRequest.prototype.open.
RestoredOnIdle(call, f, o) ==
    [fetch |-> call.originalFetch, open |-> call.originalXHROpen]

\* checkIdle, the setInterval callback.
IdleCheck(c) ==
    /\ idle[c].interval
    /\ now >= idle[c].nextPoll
    /\ IF idle[c].requestCount = 0 /\ now - idle[c].lastActivity > IdleQuietMs
       THEN LET r == RestoredOnIdle(idle[c], windowFetch, xhrOpen)
            IN  /\ windowFetch' = r.fetch
                /\ xhrOpen' = r.open
                /\ idle' = [idle EXCEPT ![c] =
                       IdleResolved(IntervalCleared(@), r.fetch, r.open, "idle")]
       ELSE /\ idle' = [idle EXCEPT ![c].nextPoll = @ + IdlePollMs]
            /\ UNCHANGED <<windowFetch, xhrOpen>>
    /\ UNCHANGED <<now, net, pageVars, finderVars, searchVars, seqVars, bgVars, fillVars, urlVars, cfgVars, injVars>>

\* (mutant) the maximum-wait callback puts back the page's own functions.
RestoredOnTimeout_PageOwn(call, f, o) ==
    [fetch |-> Native, open |-> Native]

\* (mutant) the maximum-wait callback resolves without restoring anything.
RestoredOnTimeout_Forgotten(call, f, o) ==
    [fetch |-> f, open |-> o]

\* What the maximum-wait callback leaves in window.fetch and
\* XMLHttpRequest.prototype.open.
RestoredOnTimeout(call, f, o) ==
    [fetch |-> call.originalFetch, open |-> call.originalXHROpen]

\* The setTimeout callback.  Nothing clears this timer: it also runs after
\* the idle branch has resolved the promise.
IdleTimeout(c) ==
    /\ idle[c].timer
    /\ now >= idle[c].start + idle[c].timeout
    /\ LET r == RestoredOnTimeout(idle[c], windowFetch, xhrOpen)
       IN  /\ windowFetch' = r.fetch
           /\ xhrOpen' = r.open
           /\ idle' = [idle EXCEPT ![c] =
                  IdleResolved([IntervalCleared(@) EXCEPT !.timer = FALSE],
                               r.fetch, r.open, "timeout")]
    /\ UNCHANGED <<now, net, pageVars, finderVars, searchVars, seqVars, bgVars, fillVars, urlVars, cfgVars, injVars>>

IdleTimerDue ==
    \E c \in IdleCalls :
        \/ idle[c].interval /\ now >= idle[c].nextPoll
        \/ idle[c].timer /\ now >= idle[c].start + idle[c].timeout

IdleTick ==
    /\ now < MaxIdleTime
    /\ ~IdleTimerDue
    /\ \E c \in IdleCalls : idle[c].interval \/ idle[c].timer
    /\ now' = now + IdlePollMs
    /\ UNCHANGED <<idleVars, pageVars, finderVars, searchVars, seqVars, bgVars, fillVars, urlVars, cfgVars, injVars>>

(***************************************************************************)
(* ElementFinder.findElement                                               *)
(***************************************************************************)
PollMs == 1000
Timeouts == { 1000, 2000 }

Settled(w) == w.state # "pending"

Resolved(w, e) ==
    [w EXCEPT !.state = "resolved", !.el = e,
              !.observer = FALSE, !.interval = FALSE, !.timeout = FALSE]

\* new Promise(executor) of waitForElementWithMutationObserver
SelectorWatcher(sel, d, fels, t) ==
    LET base == [kind |-> "selector", sel |-> sel, state |-> "pending",
                 el |-> NoEl, observer |-> FALSE, interval |-> FALSE,
                 timeout |-> FALSE, nextPoll |-> 0]
        q  == QuerySelector(sel, d)
        fq == QueryFrames(sel, fels)
    IN  IF q.k = "throw" THEN [base EXCEPT !.state = "rejected"]
        ELSE IF q.k = "el" THEN [base EXCEPT !.state = "resolved", !.el = q.el]
        ELSE IF fq.k = "el" THEN [base EXCEPT !.state = "resolved", !.el = fq.el]
        ELSE [base EXCEPT !.observer = TRUE, !.interval = TRUE,
                          !.timeout = TRUE, !.nextPoll = t + PollMs]

\* new Promise(executor) of findElementByText
TextWatcher(elementType, textContent, d) ==
    LET base == [kind |-> "text", sel |-> textContent, state |-> "pending",
                 el |-> NoEl, observer |-> FALSE, interval |-> FALSE,
                 timeout |-> FALSE, nextPoll |-> 0]
        q == FindByText(elementType, textContent, d)
    IN  IF q.k = "el" THEN [base EXCEPT !.state = "resolved", !.el = q.el]
        ELSE [base EXCEPT !.observer = TRUE, !.timeout = TRUE]

\* selectorOptions.map(...) followed by push(findElementByText(...))
MakeWatchers(sels, d, fels, t) ==
    [i \in 1..(Len(sels) + 1) |->
        IF i <= Len(sels) THEN SelectorWatcher(sels[i], d, fels, t)
                          ELSE TextWatcher("button", sels[1], d)]

\* Promise.race: the result follows the first promise, in array order, among
\* those that settled in this step; a settled race stays as it is.
RaceAfter(r, old, new, t) ==
    LET fresh == { i \in 1..Len(new) : Settled(new[i]) /\
                      (i > Len(old) \/ ~Settled(old[i])) }
    IN  IF r.state # "pending" \/ fresh = {} THEN r
        ELSE LET i == CHOOSE j \in fresh : \A k \in fresh : j <= k
             IN  [state |-> new[i].state, el |-> new[i].el, at |-> t, by |-> i]

SomeSelectorMatches(sels, d) ==
    \E i \in 1..Len(sels) : \E e \in d : sels[i] \in ElMatches(e)

FindElementCall ==
    /\ fe.pc = "idle"
    /\ LET ws == MakeWatchers(fe.sels, dom, frameEls, now)
       IN  /\ watchers' = ws
           /\ race' = RaceAfter(race, << >>, ws, now)
    /\ fe' = [fe EXCEPT !.pc = "called", !.callTime = now,
                        !.matchedAtCall = SomeSelectorMatches(fe.sels, dom),
                        !.everMatched = SomeSelectorMatches(fe.sels, dom)
                                        \/ SomeSelectorMatches(fe.sels, frameEls)]
    /\ UNCHANGED <<envVars, idleVars, searchVars, seqVars, bgVars, fillVars, urlVars, cfgVars, injVars>>

\* Some observer or timer of the call is still registered.
WatchersActive ==
    \E i \in 1..Len(watchers) :
        watchers[i].observer \/ watchers[i].interval \/ watchers[i].timeout

\* The MutationObserver callback of one watcher.
OnMutation(w, d) ==
    IF ~w.observer THEN w
    ELSE LET q == IF w.kind = "selector" THEN QuerySelector(w.sel, d)
                                         ELSE FindByText("button", w.sel, d)
         IN  IF q.k = "el" THEN Resolved(w, q.el) ELSE w

\* The page changes its main document; the observers run in the order in
\* which they were created.
DomMutate ==
    /\ fe.mutations < MaxMutations
    /\ WatchersActive
    /\ \E d \in SUBSET Universe(fe.sels) :
        /\ d # dom
        /\ dom' = d
        /\ LET ws == [i \in 1..Len(watchers) |-> OnMutation(watchers[i], d)]
           IN  /\ watchers' = ws
               /\ race' = RaceAfter(race, watchers, ws, now)
        /\ fe' = [fe EXCEPT !.mutations = @ + 1,
                            !.everMatched = @ \/ (fe.pc = "called" /\
                                               SomeSelectorMatches(fe.sels, d))]
    /\ UNCHANGED <<now, frameEls, idleVars, searchVars, seqVars, bgVars, fillVars, urlVars, cfgVars, injVars>>

\* The page changes the document of its same-origin iframe: no observer of
\* the main document's body sees it.
FrameMutate ==
    /\ fe.mutations < MaxMutations
    /\ WatchersActive
    /\ \E d \in SUBSET Universe(fe.sels) :
        /\ Cardinality(d) <= 1
        /\ d # frameEls
        /\ frameEls' = d
        /\ fe' = [fe EXCEPT !.mutations = @ + 1,
                            !.everMatched = @ \/ (fe.pc = "called" /\
                                               SomeSelectorMatches(fe.sels, d))]
    /\ UNCHANGED <<now, dom, watchers, race, idleVars, searchVars, seqVars, bgVars, fillVars, urlVars, cfgVars, injVars>>

\* The setInterval callback of one selector watcher.
OnInterval(w, d, fels) ==
    LET q  == QuerySelector(w.sel, d)
        fq == QueryFrames(w.sel, fels)
    IN  IF q.k = "el" THEN Resolved(w, q.el)
        ELSE IF fq.k = "el" THEN Resolved(w, fq.el)
        ELSE [w EXCEPT !.nextPoll = @ + PollMs]

FireInterval(i) ==
    /\ watchers[i].interval
    /\ now >= watchers[i].nextPoll
    /\ LET ws == [watchers EXCEPT ![i] = OnInterval(@, dom, frameEls)]
       IN  /\ watchers' = ws
           /\ race' = RaceAfter(race, watchers, ws, now)
    /\ UNCHANGED <<envVars, fe, idleVars, searchVars, seqVars, bgVars, fillVars, urlVars, cfgVars, injVars>>

\* The setTimeout callback of one watcher.
OnTimeout(w) ==
    [w EXCEPT !.state = "rejected", !.observer = FALSE,
              !.interval = FALSE, !.timeout = FALSE]

FireTimeout(i) ==
    /\ watchers[i].timeout
    /\ now >= fe.callTime + fe.timeout
    /\ LET ws == [watchers EXCEPT ![i] = OnTimeout(@)]
       IN  /\ watchers' = ws
           /\ race' = RaceAfter(race, watchers, ws, now)
    /\ UNCHANGED <<envVars, fe, idleVars, searchVars, seqVars, bgVars, fillVars, urlVars, cfgVars, injVars>>

FinderTimerDue ==
    \E i \in 1..Len(watchers) :
        \/ watchers[i].interval /\ now >= watchers[i].nextPoll
        \/ watchers[i].timeout /\ now >= fe.callTime + fe.timeout

FinderTick ==
    /\ now < MaxTime
    /\ WatchersActive
    /\ ~FinderTimerDue
    /\ now' = now + PollMs
    /\ UNCHANGED <<dom, frameEls, finderVars, idleVars, searchVars, seqVars, bgVars, fillVars, urlVars, cfgVars, injVars>>

InitFinder ==
    /\ now = 0
    /\ \E s \in SelectorSets, t \in Timeouts :
        fe = [pc |-> "idle", sels |-> s, timeout |-> t, callTime |-> 0,
              matchedAtCall |-> FALSE, everMatched |-> FALSE, mutations |-> 0]
    /\ dom \in SUBSET Universe(fe.sels)
    /\ frameEls \in { d \in SUBSET Universe(fe.sels) : Cardinality(d) <= 1 }
    /\ watchers = << >>
    /\ race = [state |-> "pending", el |-> NoEl, at |-> 0, by |-> 0]
    /\ IdleAtRest
    /\ SearchAtRest
    /\ SeqAtRest
    /\ BgAtRest
    /\ FillAtRest
    /\ UrlAtRest
    /\ CfgAtRest
    /\ InjAtRest

NextFinder ==
    \/ FindElementCall
    \/ DomMutate
    \/ FrameMutate
    \/ \E i \in 1..Len(watchers) : FireInterval(i)
    \/ \E i \in 1..Len(watchers) : FireTimeout(i)
    \/ FinderTick

SpecFinder == InitFinder /\ [][NextFinder]_vars

(***************************************************************************)
(* ElementFinder.hasErrorMessage and the result checks of a search         *)
(***************************************************************************)
\* The outcome of walking a selector list with elementExists: the first
\* selector that matches ("el") or that querySelector rejects ("throw"),
\* "null" when the list is exhausted.
RECURSIVE FirstDecisive(_, _, _)
FirstDecisive(sels, i, d) ==
    IF i > Len(sels) THEN "null"
    ELSE IF QuerySelector(sels[i], d).k # "null"
         THEN QuerySelector(sels[i], d).k
         ELSE FirstDecisive(sels, i + 1, d)

\* hasErrorMessage(): "true", "false", or "throw" when a selector of the
\* configuration is not one querySelector accepts.
hasErrorMessage(d) ==
    CASE FirstDecisive(errorMessages, 1, d) = "el"    -> "true"
      [] FirstDecisive(errorMessages, 1, d) = "throw" -> "throw"
      [] OTHER                                        -> "false"

\* The selectors of selectors.errorMessages that document.querySelector
\* accepts, as a caller of updateConfig may supply them.
errorMessages_parseable ==
    SelectSeq(errorMessages, LAMBDA sel : sel \notin JQueryOnlySelectors)

\* hasErrorMessage() on the configuration as it stands: with the lists of
\* the file, with supplied lists, and without the errorMessages property,
\* where the for-in loop has nothing to walk.
hasErrorMessageOf(lists, d) ==
    CASE lists = "shipped" -> hasErrorMessage(d)
      [] lists = "parseable" ->
            IF FirstDecisive(errorMessages_parseable, 1, d) = "el"
            THEN "true" ELSE "false"
      [] OTHER -> "false"

\* checkForAppointments(): the no-results selectors, then the appointment
\* items, then a results container; any exception is caught and is FALSE.
checkForAppointments(d) ==
    CASE FirstDecisive(appointmentResults_noResults, 1, d) # "null" -> FALSE
      [] FirstDecisive(appointmentResults_appointmentItems, 1, d) # "null" ->
            FirstDecisive(appointmentResults_appointmentItems, 1, d) = "el"
      [] OTHER ->
            FirstDecisive(appointmentResults_resultsContainer, 1, d) = "el"

(***************************************************************************)
(* AppointmentSearchAutomation and the entry point that creates it         *)
(***************************************************************************)
SearchIntervals == { 0, 30000 }
\* Recherche.aspx, Principale.aspx, and a page of another site.
Locations == { "search", "principale", "elsewhere" }
\* The search page as it can stand: without the search button, with it and
\* result items, and with the access-denied message on top.
SearchPages ==
    { { }, { "btnSearchH", "apptItem" },
      { "btnSearchH", "apptItem", "accessDeniedMsg" } }
\* The method just called on a session and the state it found.
Called(op, sess) ==
    IF api.on
    THEN [ on |-> TRUE, op |-> op, prev |-> api.op,
           isSearching |-> sess.isSearching,
           searchInterval |-> sess.searchInterval,
           searchAttempts |-> sess.searchAttempts,
           timers |-> win.timers, cleared |-> win.cleared ]
    ELSE api

Fired(op) ==
    IF api.on THEN [ NoOp EXCEPT !.on = TRUE, !.op = op, !.prev = api.op ]
              ELSE api

startContinuousSearch_NoGuard(s, sess, w) ==
    [ s |-> [ sess EXCEPT !.isSearching = TRUE, !.searchInterval = w.nextId ],
      w |-> [ w EXCEPT !.timers = @ \cup { [ id |-> w.nextId, owner |-> s ] },
                       !.nextId = @ + 1 ] ]

\* startContinuousSearch(): a no-op while isSearching, else window.setInterval.
startContinuousSearch(s, sess, w) ==
    IF sess.isSearching
    THEN [ s |-> sess, w |-> w ]
    ELSE [ s |-> [ sess EXCEPT !.isSearching = TRUE,
                               !.searchInterval = w.nextId ],
           w |-> [ w EXCEPT !.timers = @ \cup { [ id |-> w.nextId,
                                                   owner |-> s ] },
                            !.nextId = @ + 1 ] ]

stopContinuousSearch_Always(s, sess, w) ==
    [ s |-> [ sess EXCEPT !.searchInterval = 0, !.isSearching = FALSE ],
      w |-> [ w EXCEPT !.timers = { t \in @ : t.id # sess.searchInterval },
                       !.cleared = @ + 1 ] ]

stopContinuousSearch_KeepsTimer(s, sess, w) ==
    IF ~sess.isSearching
    THEN [ s |-> sess, w |-> w ]
    ELSE [ s |-> [ sess EXCEPT !.searchInterval = 0, !.isSearching = FALSE ],
           w |-> w ]

\* stopContinuousSearch(): a no-op unless isSearching, else clearInterval.
stopContinuousSearch(s, sess, w) ==
    IF ~sess.isSearching
    THEN [ s |-> sess, w |-> w ]
    ELSE [ s |-> [ sess EXCEPT !.searchInterval = 0, !.isSearching = FALSE ],
           w |-> IF sess.searchInterval # 0
                 THEN [ w EXCEPT
                          !.timers = { t \in @ : t.id # sess.searchInterval },
                          !.cleared = @ + 1 ]
                 ELSE w ]

\* What one searchForAppointment reports once its awaits have settled:
\* TRUE when an appointment was found.
searchOutcome(d) ==
    LET button == RaceAfter([state |-> "pending", el |-> NoEl,
                             at |-> 0, by |-> 0],
                            << >>, MakeWatchers(buttons_search, d, {}, 0), 0)
    IN  /\ button.state = "resolved"
        /\ hasErrorMessage(d) = "false"
        /\ checkForAppointments(d)

SearchSettled_FailureStops(s, sess, w, d) ==
    IF searchOutcome(d)
    THEN IF config.stopOnFound
         THEN stopContinuousSearch(s, [ sess EXCEPT !.everFound = TRUE ], w)
         ELSE [ s |-> [ sess EXCEPT !.everFound = TRUE ], w |-> w ]
    ELSE stopContinuousSearch(s, sess, w)

\* The tail of searchForAppointment, after its last await.
SearchSettled(s, sess, w, d) ==
    IF searchOutcome(d)
    THEN IF config.stopOnFound
         THEN stopContinuousSearch(s, [ sess EXCEPT !.everFound = TRUE ], w)
         ELSE [ s |-> [ sess EXCEPT !.everFound = TRUE ], w |-> w ]
    ELSE [ s |-> sess, w |-> w ]

\* window.startAppointmentSearch(continuous): the controller waits for the
\* page to load.
EntryStartAppointmentSearch(s, c) ==
    /\ sessions[s].pc = "none"
    /\ \A r \in 1..(s - 1) : sessions[r].pc # "none"
    /\ sessions' = [ sessions EXCEPT ![s].pc = "controller",
                                     ![s].continuous = c ]
    /\ UNCHANGED <<config, win, api, envVars, finderVars, idleVars,
                   seqVars, bgVars, fillVars, urlVars, cfgVars, injVars>>

\* startAppointmentSearchOnly after waitForPageLoad: the site check, then a
\* new AppointmentSearchAutomation whose start() runs to its first await.
ControllerChecked(s) ==
    /\ sessions[s].pc = "controller"
    /\ IF config.location = "elsewhere"
       THEN /\ sessions' = [ sessions EXCEPT ![s].pc = "done",
                                             ![s].result = "false" ]
            /\ win' = win
       ELSE /\ sessions' = [ sessions EXCEPT ![s].pc = "loading" ]
            /\ win' = [ win EXCEPT !.appointmentSearchRunning = TRUE ]
    /\ UNCHANGED <<config, api, envVars, finderVars, idleVars,
                   seqVars, bgVars, fillVars, urlVars, cfgVars, injVars>>

\* start() after waitForPageLoad and waitForNetworkIdle: the page check.
StartChecked(s) ==
    /\ sessions[s].pc = "loading"
    /\ IF config.location # "search"
       THEN sessions' = [ sessions EXCEPT ![s].pc = "done",
                                          ![s].result = "false" ]
       ELSE sessions' = [ sessions EXCEPT ![s].pc = "filling" ]
    /\ UNCHANGED <<config, win, api, envVars, finderVars, idleVars,
                   seqVars, bgVars, fillVars, urlVars, cfgVars, injVars>>

\* fillSearchParameters settles; when it resolves the initial
\* searchForAppointment starts and counts its attempt.
FillSettles(s, ok) ==
    /\ sessions[s].pc = "filling"
    /\ IF ok
       THEN sessions' = [ sessions EXCEPT ![s].pc = "initialSearch",
                                          ![s].searchAttempts = @ + 1 ]
       ELSE sessions' = [ sessions EXCEPT ![s].pc = "done",
                                          ![s].result = "false" ]
    /\ UNCHANGED <<config, win, api, envVars, finderVars, idleVars,
                   seqVars, bgVars, fillVars, urlVars, cfgVars, injVars>>

\* The initial search settles; start() starts the loop when searchInterval
\* is positive and returns true; startAppointmentSearchAutomation starts it
\* again when continuous.
InitialSearchSettles(s) ==
    /\ sessions[s].pc = "initialSearch"
    /\ LET a == SearchSettled(s, sessions[s], win, dom)
           b == IF config.searchInterval > 0
                THEN startContinuousSearch(s, a.s, a.w) ELSE a
           c == IF sessions[s].continuous
                THEN startContinuousSearch(s, b.s, b.w) ELSE b
       IN  /\ sessions' = [ sessions EXCEPT
                              ![s] = [ c.s EXCEPT !.pc = "done",
                                                  !.result = "true" ] ]
           /\ win' = c.w
    /\ UNCHANGED <<config, api, envVars, finderVars, idleVars,
                   seqVars, bgVars, fillVars, urlVars, cfgVars, injVars>>

capReached_Late(attempts, max) == max > 0 /\ attempts > max

\* The cap test of the interval callback.
capReached(attempts, max) == max > 0 /\ attempts >= max

\* The interval callback of a session's timer, up to its await.
Tick(s) ==
    /\ \E t \in win.timers : t.owner = s
    /\ sessions[s].ticks < MaxAttempts
    /\ IF capReached(sessions[s].searchAttempts, config.maxSearchAttempts)
       THEN LET a == stopContinuousSearch(s, sessions[s], win)
            IN  /\ sessions' = [ sessions EXCEPT
                                   ![s] = [ a.s EXCEPT !.ticks = @ + 1 ] ]
                /\ win' = a.w
       ELSE /\ sessions[s].inflight < MaxInflight
            /\ sessions' = [ sessions EXCEPT ![s].ticks = @ + 1,
                                             ![s].searchAttempts = @ + 1,
                                             ![s].inflight = @ + 1 ]
            /\ win' = win
    /\ api' = Fired("tick")
    /\ UNCHANGED <<config, envVars, finderVars, idleVars,
                   seqVars, bgVars, fillVars, urlVars, cfgVars, injVars>>

\* A searchForAppointment started by a tick settles.
AttemptSettles(s) ==
    /\ sessions[s].inflight > 0
    /\ LET a == SearchSettled(s, sessions[s], win, dom)
       IN  /\ sessions' = [ sessions EXCEPT
                              ![s] = [ a.s EXCEPT !.inflight = @ - 1 ] ]
           /\ win' = a.w
    /\ api' = Fired("settle")
    /\ UNCHANGED <<config, envVars, finderVars, idleVars,
                   seqVars, bgVars, fillVars, urlVars, cfgVars, injVars>>

SearchConfigs ==
    [ searchInterval : SearchIntervals, maxSearchAttempts : 0..MaxCap,
      stopOnFound : BOOLEAN, location : Locations ]

InitSearch ==
    /\ now = 0
    /\ dom \in SearchPages
    /\ frameEls = {}
    /\ fe = [ pc |-> "idle", sels |-> << >>, timeout |-> 0, callTime |-> 0,
              matchedAtCall |-> FALSE, everMatched |-> FALSE,
              mutations |-> 0 ]
    /\ watchers = << >>
    /\ race = [state |-> "pending", el |-> NoEl, at |-> 0, by |-> 0]
    /\ IdleAtRest
    /\ config \in SearchConfigs
    /\ sessions = [ s \in Sessions |-> NoSession ]
    /\ win = [ timers |-> {}, nextId |-> 1, cleared |-> 0,
               appointmentSearchRunning |-> FALSE,
               personalInfoRunning |-> FALSE ]
    /\ api = NoOp
    /\ SeqAtRest
    /\ BgAtRest
    /\ FillAtRest
    /\ UrlAtRest
    /\ CfgAtRest
    /\ InjAtRest

NextSearch ==
    \/ \E s \in Sessions, c \in BOOLEAN : EntryStartAppointmentSearch(s, c)
    \/ \E s \in Sessions : ControllerChecked(s)
    \/ \E s \in Sessions : StartChecked(s)
    \/ \E s \in Sessions, ok \in BOOLEAN : FillSettles(s, ok)
    \/ \E s \in Sessions : InitialSearchSettles(s)
    \/ \E s \in Sessions : Tick(s)
    \/ \E s \in Sessions : AttemptSettles(s)

SpecSearch == InitSearch /\ [][NextSearch]_vars

(***************************************************************************)
(* One AppointmentSearchAutomation driven through its public loop methods  *)
(***************************************************************************)
ApiStartContinuousSearch ==
    /\ win.nextId <= MaxTimers
    /\ LET a == startContinuousSearch(1, sessions[1], win)
       IN  /\ sessions' = [ sessions EXCEPT ![1] = a.s ]
           /\ win' = a.w
    /\ api' = Called("start", sessions[1])
    /\ UNCHANGED <<config, envVars, finderVars, idleVars,
                   seqVars, bgVars, fillVars, urlVars, cfgVars, injVars>>

ApiStopContinuousSearch ==
    /\ LET a == stopContinuousSearch(1, sessions[1], win)
       IN  /\ sessions' = [ sessions EXCEPT ![1] = a.s ]
           /\ win' = a.w
    /\ api' = Called("stop", sessions[1])
    /\ UNCHANGED <<config, envVars, finderVars, idleVars,
                   seqVars, bgVars, fillVars, urlVars, cfgVars, injVars>>

InitSessionApi ==
    /\ now = 0
    /\ dom \in SearchPages
    /\ frameEls = {}
    /\ fe = [ pc |-> "idle", sels |-> << >>, timeout |-> 0, callTime |-> 0,
              matchedAtCall |-> FALSE, everMatched |-> FALSE,
              mutations |-> 0 ]
    /\ watchers = << >>
    /\ race = [state |-> "pending", el |-> NoEl, at |-> 0, by |-> 0]
    /\ IdleAtRest
    /\ config \in { c \in SearchConfigs : c.location = "search" }
    /\ sessions = [ s \in Sessions |->
                      IF s = 1 THEN [ NoSession EXCEPT !.pc = "api" ]
                               ELSE NoSession ]
    /\ win = [ timers |-> {}, nextId |-> 1, cleared |-> 0,
               appointmentSearchRunning |-> FALSE,
               personalInfoRunning |-> FALSE ]
    /\ api = [ NoOp EXCEPT !.on = TRUE ]
    /\ SeqAtRest
    /\ BgAtRest
    /\ FillAtRest
    /\ UrlAtRest
    /\ CfgAtRest
    /\ InjAtRest

NextSessionApi ==
    \/ ApiStartContinuousSearch
    \/ ApiStopContinuousSearch
    \/ Tick(1)
    \/ AttemptSettles(1)

SpecSessionApi == InitSessionApi /\ [][NextSessionApi]_vars

FinderAtRest ==
    /\ fe = [pc |-> "idle", sels |-> << >>, timeout |-> 0, callTime |-> 0,
             matchedAtCall |-> FALSE, everMatched |-> FALSE, mutations |-> 0]
    /\ watchers = << >>
    /\ race = [state |-> "pending", el |-> NoEl, at |-> 0, by |-> 0]

PageAtRest ==
    /\ dom = { }
    /\ frameEls = { }

(***************************************************************************)
(* SpecIdle: up to two waitForNetworkIdle calls, one after the other or    *)
(* overlapping, while the page issues requests.                            *)
(***************************************************************************)
InitIdle ==
    /\ now = 0
    /\ PageAtRest
    /\ FinderAtRest
    /\ IdleAtRest
    /\ SearchAtRest
    /\ SeqAtRest
    /\ BgAtRest
    /\ FillAtRest
    /\ UrlAtRest
    /\ CfgAtRest
    /\ InjAtRest

NextIdle ==
    \/ \E c \in IdleCalls, t \in IdleTimeouts : IdleCall(c, t)
    \/ \E c \in IdleCalls : IdleCheck(c)
    \/ \E c \in IdleCalls : IdleTimeout(c)
    \/ PageFetch
    \/ PageFetchThrows
    \/ \E i \in 1..MaxRequests : FetchSettles(i)
    \/ PageXhrOpen
    \/ PageXhrLoadend
    \/ IdleTick

SpecIdle ==
    InitIdle /\ [][NextIdle]_vars

(***************************************************************************)
(* Claims about ElementFinder.findElement, checked under SpecFinder.       *)
(***************************************************************************)
ResultMatchesSet ==
    \E i \in 1..Len(fe.sels) : fe.sels[i] \in ElMatches(race.el)

\* C1: if at the time of the call at least one selector of the set matches
\* an element present in the document, findElement resolves with a matching
\* element (at once, hence before the timeout) and does not reject.
C1_ResolvesWhenSomeSelectorMatches ==
    (fe.pc = "called" /\ fe.matchedAtCall)
        => (race.state = "resolved" /\ ResultMatchesSet)

\* C2: if no selector of the set matches any element at any moment, then
\* findElement does not reject earlier than `timeout` ms after the call.
C2_NoRejectionBeforeTimeout ==
    (fe.pc = "called" /\ ~fe.everMatched /\ race.state = "rejected")
        => race.at >= fe.callTime + fe.timeout

\* C23: when findElement has resolved through one watcher, no watcher of
\* the call keeps a mutation observer, a timeout timer or a poll timer.
C23_WinnerCancelsTheRest ==
    race.state = "resolved" => ~WatchersActive

\* The selectors of the set that match an element of the page, in the main
\* document or in the frame the script can read.
MatchingSelectors(sels, d, fels) ==
    { i \in 1..Len(sels) : \E e \in d \cup fels : sels[i] \in ElMatches(e) }

\* C28: when several selectors of the set match elements at the time of
\* the call, findElement returns an element of the page matched by the
\* earliest of them in the set's order.
C28_EarliestSelectorWins ==
    [][(fe.pc = "idle" /\ fe'.pc = "called"
            /\ Cardinality(MatchingSelectors(fe.sels, dom, frameEls)) >= 2) =>
        LET first == CHOOSE i \in MatchingSelectors(fe.sels, dom, frameEls) :
                        \A j \in MatchingSelectors(fe.sels, dom, frameEls) : i <= j
        IN  /\ race'.state = "resolved"
            /\ race'.el \in dom \cup frameEls
            /\ fe.sels[first] \in ElMatches(race'.el)]_vars

\* A step of the setInterval callback of watcher i, taken while the
\* timeout of the call is not yet due.
IsPollOf(i) ==
    /\ i \in 1..Len(watchers)
    /\ watchers[i].interval
    /\ now >= watchers[i].nextPoll
    /\ now < fe.callTime + fe.timeout
    /\ watchers'[i] # watchers[i]
    /\ dom' = dom

\* C29: a frame whose document cannot be read is passed over, at the call
\* and at every poll: a match in a later frame is still found, and without
\* one the watcher is not rejected and goes on observing and polling.
C29_UnreadableFrameIsSkipped ==
    /\ [][(fe.pc = "idle" /\ fe'.pc = "called") =>
            \A i \in 1..Len(fe.sels) :
                QuerySelector(fe.sels[i], dom).k = "null" =>
                    LET inFrame == QuerySelector(fe.sels[i], frameEls)
                    IN  IF inFrame.k = "el"
                        THEN /\ watchers'[i].state = "resolved"
                             /\ watchers'[i].el = inFrame.el
                        ELSE /\ watchers'[i].state = "pending"
                             /\ watchers'[i].observer
                             /\ watchers'[i].interval
                             /\ watchers'[i].timeout]_vars
    /\ [][\A i \in 1..Len(watchers) :
            (IsPollOf(i) /\ QuerySelector(watchers[i].sel, dom).k = "null") =>
                LET inFrame == QuerySelector(watchers[i].sel, frameEls)
                IN  IF inFrame.k = "el"
                    THEN /\ watchers'[i].state = "resolved"
                         /\ watchers'[i].el = inFrame.el
                    ELSE /\ watchers'[i].state = "pending"
                         /\ watchers'[i].observer
                         /\ watchers'[i].interval
                         /\ watchers'[i].timeout]_vars

\* The unreadable frame comes first.  Nothing was found at the call; the
\* page then put the element into the frame after it (its only change),
\* and a poll found it there.
C29_Witness ==
    /\ ~Frames[1].access
    /\ race.state = "resolved"
    /\ race.at > fe.callTime
    /\ race.el \in frameEls
    /\ race.el \notin dom
    /\ fe.mutations = 1

(***************************************************************************)
(* Claims about ElementFinder.waitForNetworkIdle, checked under SpecIdle.  *)
(***************************************************************************)
NoIdleCallPending == \A c \in IdleCalls : idle[c].pc # "pending"

\* C3: a waitForNetworkIdle call that overlaps no other call leaves
\* window.fetch and XMLHttpRequest.prototype.open, when its promise resolves,
\* as they were before the call, on the idle path and on the timeout path and
\* whatever the page requested meanwhile; and they are still so once no call
\* is pending.
C3_SingleCallRestoresOriginals ==
    \A c \in IdleCalls :
        (idle[c].pc = "resolved" /\ ~idle[c].overlapped) =>
            /\ idle[c].fetchAtResolve = idle[c].fetchBefore
            /\ idle[c].openAtResolve = idle[c].openBefore
            /\ NoIdleCallPending =>
                  (windowFetch = idle[c].fetchBefore /\ xhrOpen = idle[c].openBefore)

\* Two calls, one after the other: the first resolved on the idle path, the
\* second on the timeout path while requests were in flight.
C3_Witness ==
    /\ idle[1].pc = "resolved" /\ idle[1].via = "idle" /\ ~idle[1].overlapped
    /\ idle[2].pc = "resolved" /\ idle[2].via = "timeout" /\ ~idle[2].overlapped
    /\ net.issued > 0
    /\ (Len(net.fetches) > 0 \/ net.xhrBusy)


\* C24: when two waitForNetworkIdle calls overlap and the timeout timer of
\* the second is due after that of the first, then once both have resolved
\* and their timers have run, window.fetch and
\* XMLHttpRequest.prototype.open are the wrappers of the first call, not
\* the functions the page had before it.
C24_OverlapLeavesWrapper ==
    ( /\ idle[1].pc = "resolved" /\ idle[2].pc = "resolved"
      /\ idle[2].originalFetch = 1 /\ idle[2].originalXHROpen = 1
      /\ ~idle[1].timer /\ ~idle[2].timer
      /\ idle[2].start + idle[2].timeout > idle[1].start + idle[1].timeout ) =>
        /\ windowFetch = 1 /\ windowFetch # idle[1].fetchBefore
        /\ xhrOpen = 1 /\ xhrOpen # idle[1].openBefore

\* Both overlapping calls have resolved, nothing of them is left to run,
\* and a wrapper is still installed.
C24_Witness ==
    /\ idle[1].pc = "resolved" /\ idle[2].pc = "resolved"
    /\ idle[1].overlapped /\ idle[2].overlapped
    /\ ~idle[1].timer /\ ~idle[2].timer
    /\ windowFetch # idle[1].fetchBefore
    /\ xhrOpen # idle[1].openBefore

\* C25: a waitForNetworkIdle call that has resolved assigns window.fetch
\* and XMLHttpRequest.prototype.open no more, so that a later call made
\* after it, while pending and overlapping no other, has its wrappers
\* installed.
C25_ResolvedCallAssignsNoMore ==
    /\ [][\A c \in IdleCalls :
            idle[c].pc = "resolved" => idle'[c].timer = idle[c].timer]_vars
    /\ [](\A c \in IdleCalls :
            (idle[c].pc = "pending" /\ ~idle[c].overlapped) =>
                (windowFetch = c /\ xhrOpen = c))

\* C26: waitForNetworkIdle has resolved when its timeout has passed and
\* never ends otherwise: while it is pending its timeout timer is set and
\* not overdue, whatever the page's requests do.
C26_ResolvesByTimeout ==
    \A c \in IdleCalls :
        /\ idle[c].pc \in { "none", "pending", "resolved" }
        /\ idle[c].pc = "pending" =>
              /\ idle[c].timer
              /\ now <= idle[c].start + idle[c].timeout
        /\ idle[c].pc = "resolved" /\ idle[c].via = "timeout" =>
              now >= idle[c].start + idle[c].timeout

\* A call resolved by its timeout while a fetch of the page had thrown and
\* another request was still under way.
C26_Witness ==
    \E c \in IdleCalls :
        /\ idle[c].pc = "resolved"
        /\ idle[c].via = "timeout"
        /\ now = idle[c].start + idle[c].timeout
        /\ net.threw > 0
        /\ (Len(net.fetches) > 0 \/ net.xhrBusy)

\* The requests started through the wrappers of call c that have not
\* finished.
InFlight(c) ==
    Cardinality({ i \in 1..Len(net.fetches) : c \in net.fetches[i] })
        + (IF net.xhrBusy /\ c \in net.xhrVia THEN 1 ELSE 0)

\* C27: while a waitForNetworkIdle call is pending its requestCount is the
\* number of requests started through its wrappers that have not finished
\* yet, and is never negative.
C27_CounterIsInFlight ==
    \A c \in IdleCalls :
        idle[c].pc = "pending" =>
            /\ idle[c].requestCount >= 0
            /\ idle[c].requestCount = InFlight(c)

(***************************************************************************)
(* The continuous search loop                                              *)
(***************************************************************************)
TimersOf(s) == { t \in win.timers : t.owner = s }

\* C4: in one page context, whatever entry points have been invoked, at
\* most one continuous-search interval timer is active at any time.
C4_AtMostOneIntervalTimer == Cardinality(win.timers) <= 1

\* C5: a startContinuousSearch that directly follows another one on the
\* same session creates no timer and changes no state: the session and the
\* timers are as the second call found them, and exactly one timer exists.
C5_SecondStartIsNoOp ==
    (api.op = "start" /\ api.prev = "start") =>
        /\ sessions[1].isSearching = api.isSearching
        /\ sessions[1].searchInterval = api.searchInterval
        /\ sessions[1].searchAttempts = api.searchAttempts
        /\ win.timers = api.timers
        /\ win.cleared = api.cleared
        /\ Cardinality(win.timers) = 1

C5_Witness ==
    /\ api.op = "start" /\ api.prev = "start"
    /\ sessions[1].isSearching
    /\ sessions[1].searchAttempts > 0
    /\ win.nextId = 3

\* C6: a stopContinuousSearch called while no continuous search is running
\* leaves isSearching, searchInterval and searchAttempts as they were and
\* clears no timer.
C6_StopWhenIdleIsNoOp ==
    (api.op = "stop" /\ ~api.isSearching) =>
        /\ sessions[1].isSearching = api.isSearching
        /\ sessions[1].searchInterval = api.searchInterval
        /\ sessions[1].searchAttempts = api.searchAttempts
        /\ win.timers = api.timers
        /\ win.cleared = api.cleared

C6_Witness ==
    /\ api.op = "stop" /\ ~api.isSearching
    /\ api.prev = "stop"
    /\ sessions[1].searchAttempts > 0
    /\ win.cleared = 1

\* C7: with maxSearchAttempts = N > 0 and no attempt finding an
\* appointment, a session's timer never fires more than N times, the loop
\* is stopped and its timer cleared once the N-th tick has run, and a loop
\* that was started keeps running until then.
C7_StopsAtNthTick ==
    \A s \in Sessions :
        (config.maxSearchAttempts > 0 /\ ~sessions[s].everFound) =>
            /\ sessions[s].ticks <= config.maxSearchAttempts
            /\ sessions[s].ticks = config.maxSearchAttempts =>
                  /\ ~sessions[s].isSearching
                  /\ sessions[s].searchInterval = 0
                  /\ TimersOf(s) = {}
            /\ ( /\ sessions[s].ticks < config.maxSearchAttempts
                 /\ sessions[s].result = "true"
                 /\ (config.searchInterval > 0 \/ sessions[s].continuous) ) =>
                  /\ sessions[s].isSearching
                  /\ Cardinality(TimersOf(s)) = 1

C7_Witness ==
    \E s \in Sessions :
        /\ config.maxSearchAttempts = 3
        /\ sessions[s].ticks = 3
        /\ sessions[s].searchAttempts = 3
        /\ sessions[s].inflight = 0
        /\ ~sessions[s].isSearching
        /\ TimersOf(s) = {}


(***************************************************************************)
(* updateConfig: Object.assign(AUTOMATION_CONFIG, newConfig)               *)
(***************************************************************************)
\* The value a caller supplies for a field.
Supplied(k) ==
    CASE k = << "appointmentData", "firstName" >>       -> "Ana"
      [] k = << "appointmentData", "searchRadius" >>    -> "50"
      [] k = << "searchBehavior", "searchInterval" >>   -> "60000"
      [] k = << "searchBehavior", "maxSearchAttempts" >> -> "5"
      [] k = << "searchBehavior", "stopOnFound" >>      -> "true"
      [] k = << "selectors", "buttons" >>               -> "parseable"
      [] k = << "selectors", "errorMessages" >>         -> "parseable"
      [] k = << "timeouts", "elementWait" >>            -> "10000"
      [] k = << "timeouts", "pageTransition" >>         -> "8000"

\* The objects a caller may pass: the sections it has as own properties
\* (one or two of them) and, of these, the fields it names.
Partials ==
    { [ sections |-> P, named |-> K ] :
        << P, K >> \in { pk \in (SUBSET Sections) \X (SUBSET Keys) :
                           /\ Cardinality(pk[1]) \in { 1, 2 }
                           /\ \A k \in pk[2] : k[1] \in pk[1] } }

\* Object.assign(target, partial): every own property of the partial
\* replaces the property of that name, a section object as a whole.
assign(target, partial) ==
    [ k \in Keys |->
        IF k[1] \in partial.sections
        THEN IF k \in partial.named THEN Supplied(k) ELSE absent
        ELSE target[k] ]

\* window.updateAutomationConfig(newConfig), through
\* AutomationController.updateConfig.
UpdateConfig(partial) ==
    /\ cu.updates < MaxUpdates
    /\ acfg' = assign(acfg, partial)
    /\ cu' = [ pc |-> "updated", before |-> acfg, partial |-> partial,
               updates |-> cu.updates + 1 ]
    /\ UNCHANGED <<envVars, finderVars, idleVars, searchVars, seqVars,
                   bgVars, fillVars, urlVars, injVars>>

(***************************************************************************)
(* The step sequences: AppointmentAutomation.start behind the legacy       *)
(* startAutomation and behind the start-up function of the earlier content *)
(* script, and PersonalInfoAutomation.start behind startPersonalInfo.      *)
(***************************************************************************)
Kinds == { "legacyStartAutomation", "legacyMain", "startPersonalInfo" }

stepsOf(kind) ==
    CASE kind = "legacyStartAutomation" ->
            << "fillPersonalInfo", "clickContinue",
               "fillSearchParameters", "searchForAppointment" >>
      [] kind = "legacyMain" ->
            << "clickScheduleAppointment", "fillPersonalInfo",
               "clickContinue", "clickScheduleAppointment",
               "fillSearchParameters", "searchForAppointment" >>
      [] OTHER ->
            << "fillPersonalInfo", "clickContinue",
               "clickScheduleAppointment" >>

HasCurrentStep(kind) == kind \in { "legacyStartAutomation", "legacyMain" }

\* findElement(selectors.buttons.search) on the page as it stands.
searchButtonFound(d) ==
    RaceAfter([state |-> "pending", el |-> NoEl, at |-> 0, by |-> 0],
              << >>, MakeWatchers(buttons_search, d, {}, 0), 0).state
        = "resolved"

\* How a step can settle.  The earlier content script reads
\* config.selectors.scheduleAppointment, which its configuration does not
\* have.  The modular clickContinue and clickScheduleAppointment end in
\* "banner" when they get as far as hasErrorMessage() and it returns true;
\* clickContinue resolves only if it returns false, and
\* clickScheduleAppointment catches whatever is thrown inside it.
StepOutcomes(kind, step, d, cfg) ==
    LET h == hasErrorMessageOf(cfg[<< "selectors", "errorMessages" >>], d)
        noButtons == cfg[<< "selectors", "buttons" >>] = absent
    IN  CASE step = "clickScheduleAppointment" /\ kind = "legacyMain" ->
                { "throw" }
          [] step = "clickScheduleAppointment" ->
                { "ok" } \cup
                (IF ~noButtons /\ h = "true" THEN { "banner" } ELSE { })
          [] step = "clickContinue" /\ kind = "startPersonalInfo" ->
                { "throw" } \cup
                (IF ~noButtons /\ h = "true" THEN { "banner" } ELSE { }) \cup
                (IF ~noButtons /\ h = "false" THEN { "ok" } ELSE { })
          [] step = "searchForAppointment" ->
                IF searchButtonFound(d) THEN { "ok" } ELSE { "throw" }
          [] OTHER -> { "ok", "throw" }

\* What a step that saw the banner does with the error it throws.
afterBanner(step) ==
    IF step = "clickScheduleAppointment" THEN "ok" ELSE "throw"

\* What the entry point returns once start() has settled.
entryResult(kind, failed) ==
    CASE kind = "legacyStartAutomation" -> "true"
      [] kind = "legacyMain"            -> "undefined"
      [] OTHER -> IF failed THEN "false" ELSE "true"

afterThrow_Continue(run) ==
    IF run.at + 1 < Len(stepsOf(run.kind))
    THEN [ run EXCEPT !.threwAt = run.at, !.at = @ + 1,
                      !.currentStep = @ + 1,
                      !.started = Append(@, run.at + 1) ]
    ELSE [ run EXCEPT !.threwAt = run.at, !.logged = run.currentStep + 1,
                      !.pc = "returned",
                      !.result = entryResult(run.kind, TRUE) ]

\* The catch of start(): the failure is logged with currentStep + 1 and
\* start() returns; the entry point returns.
afterThrow(run) ==
    [ run EXCEPT !.threwAt = run.at,
                 !.logged = IF HasCurrentStep(run.kind)
                            THEN run.currentStep + 1 ELSE 0,
                 !.pc = "returned",
                 !.result = entryResult(run.kind, TRUE) ]

\* The step resolved: the loop increments currentStep and starts the next
\* step, or start() completes.
afterOk(run) ==
    IF run.at + 1 < Len(stepsOf(run.kind))
    THEN [ run EXCEPT !.at = @ + 1,
                      !.currentStep = IF HasCurrentStep(run.kind)
                                      THEN @ + 1 ELSE @,
                      !.started = Append(@, run.at + 1) ]
    ELSE [ run EXCEPT !.currentStep = IF HasCurrentStep(run.kind)
                                      THEN @ + 1 ELSE @,
                      !.pc = "returned",
                      !.result = entryResult(run.kind, FALSE) ]

\* An entry point is invoked and runs to its first await.
EntryRun(r, kind) ==
    /\ runs[r].pc = "none"
    /\ \A q \in Runs : q < r => runs[q].pc # "none"
    /\ IF kind = "legacyStartAutomation" /\ config.location # "principale"
       THEN runs' = [ runs EXCEPT ![r].kind = kind, ![r].pc = "returned",
                                  ![r].result = "false" ]
       ELSE runs' = [ runs EXCEPT ![r].kind = kind, ![r].pc = "preparing" ]
    /\ UNCHANGED <<envVars, finderVars, idleVars, searchVars, bgVars, fillVars, urlVars, cfgVars, injVars>>

\* The waits of the entry point are over: the automation object is built
\* and its start() runs to its first await.
Prepared(r) ==
    /\ runs[r].pc = "preparing"
    /\ IF runs[r].kind = "startPersonalInfo"
       THEN IF config.location = "elsewhere"
            THEN /\ runs' = [ runs EXCEPT ![r].pc = "returned",
                                          ![r].result = "false" ]
                 /\ win' = win
            ELSE /\ runs' = [ runs EXCEPT ![r].pc = "loading" ]
                 /\ win' = [ win EXCEPT !.personalInfoRunning = TRUE ]
       ELSE /\ runs' = [ runs EXCEPT ![r].pc = "loading",
                                     ![r].currentStep = 0 ]
            /\ win' = win
    /\ UNCHANGED <<config, sessions, api>>
    /\ UNCHANGED <<envVars, finderVars, idleVars, bgVars, fillVars, urlVars, cfgVars, injVars>>

\* waitForPageLoad and waitForNetworkIdle are over: the first step starts.
Loaded(r) ==
    /\ runs[r].pc = "loading"
    /\ IF runs[r].kind = "startPersonalInfo" /\ config.location # "principale"
       THEN /\ runs' = [ runs EXCEPT ![r].pc = "returned",
                                     ![r].result = "false" ]
            /\ win' = [ win EXCEPT !.personalInfoRunning = FALSE ]
       ELSE /\ runs' = [ runs EXCEPT ![r].pc = "step", ![r].at = 0,
                                     ![r].currentStep = 0,
                                     ![r].started = << 0 >> ]
            /\ win' = win
    /\ UNCHANGED <<config, sessions, api>>
    /\ UNCHANGED <<envVars, finderVars, idleVars, bgVars, fillVars, urlVars, cfgVars, injVars>>

\* The running step settles.
StepSettles(r, o) ==
    /\ runs[r].pc = "step"
    /\ o \in StepOutcomes(runs[r].kind, stepsOf(runs[r].kind)[runs[r].at + 1],
                          dom, acfg)
    /\ LET step == stepsOf(runs[r].kind)[runs[r].at + 1]
           run == [ runs[r] EXCEPT !.settled = @ + 1,
                                   !.bannerAt = IF o = "banner"
                                                THEN runs[r].at ELSE @ ]
           how == IF o = "banner" THEN afterBanner(step) ELSE o
           next == IF how = "ok" THEN afterOk(run) ELSE afterThrow(run)
       IN  /\ runs' = [ runs EXCEPT ![r] = next ]
           /\ win' = IF next.pc = "returned" /\ next.kind = "startPersonalInfo"
                     THEN [ win EXCEPT !.personalInfoRunning = FALSE ]
                     ELSE win
    /\ UNCHANGED <<config, sessions, api>>
    /\ UNCHANGED <<envVars, finderVars, idleVars, bgVars, fillVars, urlVars, cfgVars, injVars>>

\* The site answers a click: the page shows something else.
PageChanges(d) ==
    /\ \E r \in Runs : runs[r].pc = "step"
    /\ d # dom
    /\ dom' = d
    /\ UNCHANGED <<now, frameEls, finderVars, idleVars, searchVars, seqVars,
                   bgVars, fillVars, urlVars, cfgVars, injVars>>

\* The objects updateConfig is given while a sequence may run: a selectors
\* section.
SelectorPartials == { p \in Partials : p.sections = { "selectors" } }

InitSequencer ==
    /\ now = 0
    /\ dom \in SearchPages
    /\ frameEls = {}
    /\ FinderAtRest
    /\ IdleAtRest
    /\ config \in { c \in SearchConfigs :
                      /\ c.searchInterval = 30000
                      /\ c.maxSearchAttempts = 0
                      /\ ~c.stopOnFound }
    /\ sessions = [ s \in Sessions |-> NoSession ]
    /\ win = [ timers |-> {}, nextId |-> 1, cleared |-> 0,
               appointmentSearchRunning |-> FALSE,
               personalInfoRunning |-> FALSE ]
    /\ api = NoOp
    /\ SeqAtRest
    /\ BgAtRest
    /\ FillAtRest
    /\ UrlAtRest
    /\ CfgAtRest
    /\ InjAtRest

NextSequencer ==
    \/ \E r \in Runs, k \in Kinds : EntryRun(r, k)
    \/ \E r \in Runs : Prepared(r)
    \/ \E r \in Runs : Loaded(r)
    \/ \E r \in Runs, o \in { "ok", "throw", "banner" } : StepSettles(r, o)
    \/ \E d \in SearchPages : PageChanges(d)
    \/ \E partial \in SelectorPartials : UpdateConfig(partial)

SpecSequencer == InitSequencer /\ [][NextSequencer]_vars

InOrder(run) ==
    \A j \in 1..Len(run.started) : run.started[j] = j - 1

\* C8: AppointmentAutomation.start runs its steps in array order, one at a
\* time, each settled before the next begins; once step i has thrown no
\* later step is started, none is retried, and the failure is logged with
\* currentStep = i.
C8_StepsInOrderHaltOnThrow ==
    \A r \in Runs :
        HasCurrentStep(runs[r].kind) =>
            /\ InOrder(runs[r])
            /\ Len(runs[r].started) - runs[r].settled \in { 0, 1 }
            /\ runs[r].pc = "step" =>
                  /\ Len(runs[r].started) = runs[r].settled + 1
                  /\ runs[r].currentStep = runs[r].at
            /\ runs[r].threwAt # -1 =>
                  /\ runs[r].pc = "returned"
                  /\ Len(runs[r].started) = runs[r].threwAt + 1
                  /\ runs[r].currentStep = runs[r].threwAt
                  /\ runs[r].logged = runs[r].threwAt + 1

C8_Witness ==
    \E r \in Runs :
        /\ runs[r].kind = "legacyStartAutomation"
        /\ runs[r].threwAt = 2
        /\ runs[r].started = << 0, 1, 2 >>
        /\ runs[r].logged = 3
        /\ runs[r].pc = "returned"

\* C9: when a step of a sequence has thrown, the entry point that started
\* it (startAutomation, startPersonalInfo) returns false, never success,
\* and the rejection does not escape.
C9_FailureIsReported ==
    \A r \in Runs :
        ( /\ runs[r].kind \in { "legacyStartAutomation", "startPersonalInfo" }
          /\ runs[r].threwAt # -1
          /\ runs[r].pc = "returned" ) =>
            /\ runs[r].result = "false"
            /\ ~runs[r].escaped


\* Some selector of selectors.errorMessages matches an element of d.
SomeErrorSelectorMatches(d) ==
    \E i \in 1..Len(errorMessages) : \E e \in d : errorMessages[i] \in ElMatches(e)

\* C30: hasErrorMessage, as clickContinue calls it after its wait, returns
\* a boolean and does not throw: true if some configured error selector
\* matches an element of the page, false otherwise.
C30_HasErrorMessageIsBoolean ==
    \A r \in Runs :
        ( /\ runs[r].kind = "startPersonalInfo"
          /\ runs[r].pc = "step"
          /\ stepsOf(runs[r].kind)[runs[r].at + 1] = "clickContinue" ) =>
            hasErrorMessage(dom) =
                (IF SomeErrorSelectorMatches(dom) THEN "true" ELSE "false")

\* C31: once a step of the personal-information sequence has seen the
\* site's error banner after its click, the sequence starts no further
\* step and returns false, never success.
C31_BannerHaltsAndFails ==
    \A r \in Runs :
        (runs[r].kind = "startPersonalInfo" /\ runs[r].bannerAt # -1) =>
            /\ runs[r].pc = "returned"
            /\ runs[r].result = "false"
            /\ Len(runs[r].started) = runs[r].bannerAt + 1

(***************************************************************************)
(* The background message handlers startAutomation and updateConfig        *)
(***************************************************************************)
\* "startAutomation (first)" is the handler of the first version of the
\* extension, which knows no automation type.
Handlers == { "startAutomation", "updateConfig", "startAutomation (first)" }

StartHandlers == { "startAutomation", "startAutomation (first)" }

\* body.type as the popups send it; the first popup sends no type.
BodyTypes == { "full", "personalInfo", "appointmentSearch", "absent" }

\* The content script of the tab: the modular one exposes every function,
\* the legacy one only startAutomation, and a tab may have none.
PageScripts == { "modular", "legacy", "none" }

HasFn(page, fn) ==
    \/ page = "modular"
    \/ page = "legacy" /\ fn = "startAutomation"

\* body.type || "full"
automationType(type) == IF type = "absent" THEN "full" ELSE type

FnFor(type) ==
    CASE type = "personalInfo"      -> "startPersonalInfo"
      [] type = "appointmentSearch" -> "startAppointmentSearch"
      [] OTHER                      -> "startAutomation"

Started(type, fn) ==
    [ success |-> Bool(TRUE), type |-> Str(type), message |-> undefined,
      invoked |-> << fn >> ]

NotFound(text) ==
    [ success |-> Bool(FALSE), type |-> undefined, message |-> Str(text),
      invoked |-> << >> ]

\* The function executed in the page after the script file was injected.
startFunc(type, page) ==
    IF HasFn(page, FnFor(type))
    THEN Started(type, FnFor(type))
    ELSE NotFound("Function for " \o type \o " automation not found")

\* The function executed in the page when the injection failed.
fallbackFunc(type, page) ==
    IF HasFn(page, FnFor(type))
    THEN Started(type, FnFor(type))
    ELSE IF HasFn(page, "startAutomation")
         THEN Started("full", "startAutomation")
         ELSE NotFound("Function for " \o type
                       \o " automation not found in fallback")

\* The function the first handler executes in the page when the injection
\* failed; the handler reads nothing of what it returns.
firstFallbackFunc(page) ==
    IF HasFn(page, "startAutomation")
    THEN Started("full", "startAutomation")
    ELSE NotFound("Function not found in fallback")

\* The function executed in the page by updateConfig.
configFunc(page) ==
    IF page = "modular"
    THEN [ success |-> Bool(TRUE), type |-> undefined, message |-> undefined,
           invoked |-> << "updateAutomationConfig" >> ]
    ELSE NotFound("updateAutomationConfig function not found")

NoResult ==
    [ success |-> undefined, type |-> undefined, message |-> undefined,
      invoked |-> << >> ]

Truthy(x) ==
    \/ x.t = "boolean" /\ x.v
    \/ x.t = "string" /\ x.v # ""

\* `${x}` in a template literal
Text(x) == IF x.t = "string" THEN x.v ELSE "undefined"

orDefault_None(m, d) == m

\* m || d
orDefault(m, d) == IF Truthy(m) THEN m ELSE Str(d)

\* The response the handler builds from results[0]?.result.
Response(result, okText, failText) ==
    IF Truthy(result.success)
    THEN [ success |-> Bool(TRUE), message |-> Str(okText) ]
    ELSE [ success |-> Bool(FALSE),
           message |-> orDefault(result.message, failText) ]

Send(b, path, response) ==
    [ b EXCEPT !.pc = "returned", !.path = path,
               !.responses = Append(@, response) ]

\* A popup sends a message; the handler runs to chrome.tabs.query.
BgReceive(name, type, continuous) ==
    /\ bg.pc = "idle"
    /\ name # "startAutomation" => (type = "absent" /\ ~continuous)
    /\ bg' = [ bg EXCEPT !.pc = "tabsQuery", !.name = name, !.type = type,
                         !.continuous = continuous ]
    /\ UNCHANGED <<envVars, finderVars, idleVars, searchVars, seqVars, fillVars, urlVars, cfgVars, injVars>>

\* chrome.tabs.query settles.
BgTabsQueried(o) ==
    /\ bg.pc = "tabsQuery"
    /\ bg' = CASE o = "noTab" ->
                    Send(bg, "noTab", [ success |-> Bool(FALSE),
                                        message |-> Str("No active tab found") ])
               [] o = "otherSite" ->
                    Send(bg, "wrongSite",
                         [ success |-> Bool(FALSE),
                           message |->
                             Str("Please navigate to the RVSQ website first") ])
               [] o = "throws" ->
                    Send(bg, "exception",
                         [ success |-> Bool(FALSE),
                           message |-> Str("Error: " \o "query failed") ])
               [] OTHER ->
                    [ bg EXCEPT !.pc = IF bg.name \in StartHandlers
                                       THEN "inject" ELSE "exec" ]
    /\ UNCHANGED <<envVars, finderVars, idleVars, searchVars, seqVars, fillVars, urlVars, cfgVars, injVars>>

\* executeScript({files: ["assets/inject-automation.js"]}) settles; the
\* injected script calls window.startAutomation when the page has it.  The
\* first handler answers as soon as the injection has resolved.
BgInjected(o) ==
    /\ bg.pc = "inject"
    /\ LET ran == [ bg EXCEPT !.invoked = IF HasFn(bg.page, "startAutomation")
                                          THEN Append(@, "startAutomation")
                                          ELSE @ ]
       IN  bg' = CASE o # "ok" -> [ bg EXCEPT !.pc = "fallback" ]
                   [] bg.name = "startAutomation" ->
                        [ ran EXCEPT !.pc = "function" ]
                   [] OTHER ->
                        Send(ran, "injection",
                             [ success |-> Bool(TRUE),
                               message |->
                                 Str("Automation script injected successfully") ])
    /\ UNCHANGED <<envVars, finderVars, idleVars, searchVars, seqVars, fillVars, urlVars, cfgVars, injVars>>

\* executeScript({func}) of the main path settles.
BgFunctionRan(o) ==
    /\ bg.pc = "function"
    /\ LET type == automationType(bg.type)
           result == IF o = "result" THEN startFunc(type, bg.page)
                                     ELSE NoResult
       IN  bg' = IF o = "throws"
                 THEN [ bg EXCEPT !.pc = "fallback" ]
                 ELSE Send([ bg EXCEPT !.invoked = @ \o result.invoked ],
                           "injection",
                           Response(result,
                                    Text(result.type)
                                        \o " automation started successfully",
                                    "Failed to start automation"))
    /\ UNCHANGED <<envVars, finderVars, idleVars, searchVars, seqVars, fillVars, urlVars, cfgVars, injVars>>

\* executeScript({func}) of the fallback settles.  The first handler
\* answers success whatever its function returned.
BgFallbackRan(o) ==
    /\ bg.pc = "fallback"
    /\ LET type == automationType(bg.type)
           result == CASE o # "result" -> NoResult
                       [] bg.name = "startAutomation" ->
                            fallbackFunc(type, bg.page)
                       [] OTHER -> firstFallbackFunc(bg.page)
           ran == [ bg EXCEPT !.invoked = @ \o result.invoked ]
       IN  bg' = CASE o = "throws" ->
                        Send(bg, "fallbackError",
                             [ success |-> Bool(FALSE),
                               message |-> Str("Automation failed: "
                                               \o "script failed") ])
                   [] bg.name = "startAutomation" ->
                        Send(ran, "fallback",
                             Response(result,
                                      Text(result.type)
                                        \o " automation started with fallback methods",
                                      "Failed to start automation with fallback methods"))
                   [] OTHER ->
                        Send(ran, "fallback",
                             [ success |-> Bool(TRUE),
                               message |->
                                 Str("Attempted automation with fallback methods") ])
    /\ UNCHANGED <<envVars, finderVars, idleVars, searchVars, seqVars, fillVars, urlVars, cfgVars, injVars>>

\* executeScript({func}) of updateConfig settles.
BgConfigRan(o) ==
    /\ bg.pc = "exec"
    /\ LET result == IF o = "result" THEN configFunc(bg.page) ELSE NoResult
       IN  bg' = IF o = "throws"
                 THEN Send(bg, "exception",
                           [ success |-> Bool(FALSE),
                             message |-> Str("Error: " \o "script failed") ])
                 ELSE Send([ bg EXCEPT !.invoked = @ \o result.invoked ],
                           "executed",
                           Response(result,
                                    "Configuration updated successfully",
                                    "Failed to update configuration"))
    /\ UNCHANGED <<envVars, finderVars, idleVars, searchVars, seqVars, fillVars, urlVars, cfgVars, injVars>>

ScriptOutcomes == { "result", "noResult", "throws" }

InitBackground ==
    /\ now = 0
    /\ PageAtRest
    /\ FinderAtRest
    /\ IdleAtRest
    /\ SearchAtRest
    /\ SeqAtRest
    /\ bg \in { [ NoRequest EXCEPT !.page = p ] : p \in PageScripts }
    /\ FillAtRest
    /\ UrlAtRest
    /\ CfgAtRest
    /\ InjAtRest

NextBackground ==
    \/ \E n \in Handlers, t \in BodyTypes, c \in BOOLEAN : BgReceive(n, t, c)
    \/ \E o \in { "noTab", "otherSite", "throws", "rvsq" } : BgTabsQueried(o)
    \/ \E o \in { "ok", "throws" } : BgInjected(o)
    \/ \E o \in ScriptOutcomes : BgFunctionRan(o)
    \/ \E o \in ScriptOutcomes : BgFallbackRan(o)
    \/ \E o \in ScriptOutcomes : BgConfigRan(o)

SpecBackground == InitBackground /\ [][NextBackground]_vars

Chars == { "a", "A", "1" }

Strings(n) == UNION { [ 1..k -> Chars ] : k \in 0..n }

toLowerCase(str) ==
    [ i \in 1..Len(str) |-> IF str[i] = "A" THEN "a" ELSE str[i] ]

\* hay.includes(needle)
includes(hay, needle) ==
    \E i \in 0..(Len(hay) - Len(needle)) :
        \A j \in 1..Len(needle) : hay[i + j] = needle[j]

\* The options a select of the page can have.
OptionPool ==
    { [ value |-> << "1" >>,      text |-> << "A", "a" >> ],
      [ value |-> << "a", "1" >>, text |-> << "1" >> ],
      [ value |-> << "A" >>,      text |-> << >> ],
      [ value |-> << >>,          text |-> << "a" >> ] }

OptionLists ==
    { os \in UNION { [ 1..k -> OptionPool ] : k \in 0..MaxOptions } :
        \A i, j \in 1..Len(os) : i # j => os[i] # os[j] }

\* The fields fillInput can be given by findElement: of the top document,
\* or of a same-origin iframe the watcher looked into.
Realms == { "top", "frame" }

Fields ==
    { [ NoField EXCEPT !.kind = k, !.realm = r, !.value = v ] :
        k \in { "text", "textarea" }, r \in Realms,
        v \in { << >>, << "a" >> } }
    \cup { [ NoField EXCEPT !.kind = "checkbox", !.realm = r, !.checked = c ] :
             r \in Realms, c \in BOOLEAN }
    \cup { [ NoField EXCEPT !.kind = "select", !.realm = r, !.options = os,
                            !.selected = IF Len(os) = 0 THEN 0 ELSE 1 ] :
             r \in Realms, os \in OptionLists }

\* input instanceof HTMLInputElement (HTMLSelectElement, ...): the
\* interfaces are those of the script's own window, which an element of
\* another document does not inherit from.
instanceOf(el, kinds) == el.realm = "top" /\ el.kind \in kinds

\* select.value
SelectValue(el) ==
    IF el.selected = 0 THEN << >> ELSE el.options[el.selected].value

\* select.value = v: the first option with that value becomes selected.
SetSelectValue(el, v) ==
    LET m == { i \in 1..Len(el.options) : el.options[i].value = v }
    IN  [ el EXCEPT !.selected = IF m = {} THEN 0
                                 ELSE CHOOSE i \in m : \A j \in m : i <= j ]

optionMatches(opt, value) ==
    \/ includes(toLowerCase(opt.text), toLowerCase(value))
    \/ includes(toLowerCase(opt.value), toLowerCase(value))

findOption_OrFirst(options, value) ==
    LET m == { i \in 1..Len(options) : optionMatches(options[i], value) }
    IN  IF m = {} THEN (IF Len(options) > 0 THEN 1 ELSE 0)
                  ELSE CHOOSE i \in m : \A j \in m : i <= j

\* Array.from(input.options).find(...): the index of the option, 0 for none.
findOption(options, value) ==
    LET m == { i \in 1..Len(options) : optionMatches(options[i], value) }
    IN  IF m = {} THEN 0 ELSE CHOOSE i \in m : \A j \in m : i <= j

\* The body of fillInput after findElement has resolved with el: the
\* element afterwards, the events dispatched and the clicks made.
filled(el, value) ==
    IF instanceOf(el, { "checkbox" })
    THEN IF ~el.checked
         THEN [ el |-> [ el EXCEPT !.checked = TRUE ], dispatched |-> << >>,
                clicked |-> 1 ]
         ELSE [ el |-> el, dispatched |-> << >>, clicked |-> 0 ]
    ELSE IF instanceOf(el, { "select" })
    THEN IF findOption(el.options, value) # 0
         THEN [ el |-> SetSelectValue(el,
                         el.options[findOption(el.options, value)].value),
                dispatched |-> << "change" >>, clicked |-> 0 ]
         ELSE [ el |-> el, dispatched |-> << >>, clicked |-> 0 ]
    ELSE IF instanceOf(el, { "text", "textarea" })
    THEN [ el |-> [ el EXCEPT !.value = value ],
           dispatched |-> << "input", "change" >>, clicked |-> 0 ]
    ELSE [ el |-> el, dispatched |-> << >>, clicked |-> 0 ]

\* fillInput(fieldSelectors, value) whose findElement resolves with the field.
FillInput(value) ==
    /\ fl.fills < MaxFills
    /\ LET f == filled(fl.el, value)
       IN  fl' = [ fl EXCEPT !.pc = "filled", !.before = fl.el, !.el = f.el,
                             !.value = value, !.dispatched = f.dispatched,
                             !.clicked = f.clicked, !.fills = @ + 1,
                             !.returned = "element" ]
    /\ UNCHANGED <<envVars, finderVars, idleVars, searchVars, seqVars, bgVars, urlVars, cfgVars, injVars>>

\* fillInput whose findElement rejects: the rejection is passed on.
FillInputNotFound(value) ==
    /\ fl.fills < MaxFills
    /\ fl' = [ fl EXCEPT !.pc = "rejected", !.before = fl.el,
                         !.value = value, !.dispatched = << >>,
                         !.clicked = 0, !.fills = @ + 1,
                         !.returned = "rejects" ]
    /\ UNCHANGED <<envVars, finderVars, idleVars, searchVars, seqVars, bgVars, urlVars, cfgVars, injVars>>

InitFiller ==
    /\ now = 0
    /\ PageAtRest
    /\ FinderAtRest
    /\ IdleAtRest
    /\ SearchAtRest
    /\ SeqAtRest
    /\ BgAtRest
    /\ UrlAtRest
    /\ CfgAtRest
    /\ InjAtRest
    /\ fl \in { [ NoFill EXCEPT !.el = e, !.before = e ] : e \in Fields }

NextFiller ==
    \/ \E v \in Strings(MaxValueLen) : FillInput(v)
    \/ \E v \in Strings(MaxValueLen) : FillInputNotFound(v)

SpecFiller == InitFiller /\ [][NextFiller]_vars

\* C11: fillInput on a located text input or textarea sets its value to
\* the given value, dispatches one input event and then one change event,
\* and returns the element.
C11_TextIsSetWithInputThenChange ==
    (fl.pc = "filled" /\ fl.before.kind \in { "text", "textarea" }) =>
        /\ fl.el.value = fl.value
        /\ fl.dispatched = << "input", "change" >>
        /\ fl.returned = "element"

SomeOptionContains(options, value) ==
    \E i \in 1..Len(options) :
        \/ includes(toLowerCase(options[i].text), toLowerCase(value))
        \/ includes(toLowerCase(options[i].value), toLowerCase(value))

FirstContaining(options, value) ==
    CHOOSE i \in 1..Len(options) :
        /\ SomeOptionContains(<< options[i] >>, value)
        /\ \A j \in 1..(i - 1) : ~SomeOptionContains(<< options[j] >>, value)

\* C12: fillInput on a select chooses the first option, in option order,
\* whose text or value contains the target value whatever the case, sets
\* the select's value to that option's value and dispatches one change
\* event and no input event.
C12_SelectTakesFirstContainingOption ==
    ( /\ fl.pc = "filled" /\ fl.before.kind = "select"
      /\ SomeOptionContains(fl.before.options, fl.value) ) =>
        /\ SelectValue(fl.el) =
              fl.before.options[FirstContaining(fl.before.options,
                                                fl.value)].value
        /\ fl.dispatched = << "change" >>
        /\ fl.returned = "element"

\* C13: fillInput on a select none of whose options contains the target
\* value leaves the select as it was, dispatches no event and resolves
\* with the element.
C13_SelectWithoutMatchIsLeftAlone ==
    ( /\ fl.pc = "filled" /\ fl.before.kind = "select"
      /\ ~SomeOptionContains(fl.before.options, fl.value) ) =>
        /\ fl.el = fl.before
        /\ fl.dispatched = << >>
        /\ fl.clicked = 0
        /\ fl.returned = "element"

C13_Witness ==
    /\ fl.pc = "filled" /\ fl.before.kind = "select"
    /\ fl.before.realm = "top"
    /\ Len(fl.before.options) = 2
    /\ ~SomeOptionContains(fl.before.options, fl.value)
    /\ fl.returned = "element"

\* C14: fillInput on a checkbox clicks it exactly when it is unchecked, so
\* that the checkbox is checked afterwards, however often it is applied.
C14_CheckboxEndsChecked ==
    (fl.pc = "filled" /\ fl.before.kind = "checkbox") =>
        /\ fl.el.checked
        /\ (fl.clicked = 1) <=> ~fl.before.checked


(***************************************************************************)
(* Search attempts and the ways the loop ends                              *)
(***************************************************************************)
\* C15: while a continuous search is running, an attempt that settles
\* without finding an appointment (no search button, an error message, a
\* thrown error) leaves isSearching true and the interval timer active.
C15_FailedAttemptKeepsLoop ==
    [][ \A s \in Sessions :
          ( /\ sessions[s].isSearching
            /\ sessions'[s].inflight < sessions[s].inflight
            /\ ~sessions'[s].everFound ) =>
              /\ sessions'[s].isSearching
              /\ sessions'[s].searchInterval = sessions[s].searchInterval
              /\ { t \in win'.timers : t.owner = s } = TimersOf(s)
              /\ TimersOf(s) # {} ]_vars

C15_Witness ==
    \E s \in Sessions :
        /\ dom = { }
        /\ sessions[s].isSearching
        /\ TimersOf(s) # {}
        /\ sessions[s].ticks >= 2
        /\ sessions[s].inflight = 0
        /\ sessions[s].searchAttempts = sessions[s].ticks + 1

\* The page after a search shows an appointment: the search button was
\* there to click, no error message and no no-results message is
\* displayed, and an appointment item is present.
ShowsAppointment(d) ==
    /\ "btnSearchH" \in d
    /\ "apptItem" \in d
    /\ d \cap { "accessDeniedMsg", "alertBanner", "noResultsMsg" } = { }

\* C16: a search that completes on a page with no error message, no
\* no-results message and an appointment item reports found and notifies.
C16_AppointmentOnPageIsFound ==
    \A s \in Sessions :
        ( /\ sessions[s].pc = "done" /\ sessions[s].result = "true"
          /\ ShowsAppointment(dom) ) => sessions[s].everFound

C18_StopClearsTheTimer ==
    /\ [] ( (api.op = "stop" /\ api.isSearching) =>
              /\ ~sessions[1].isSearching
              /\ sessions[1].searchInterval = 0
              /\ TimersOf(1) = { }
              /\ \A t \in win.timers : t.id # api.searchInterval
              /\ win.cleared = api.cleared + 1 )
    /\ [][ TimersOf(1) = { } =>
              /\ sessions'[1].ticks = sessions[1].ticks
              /\ sessions'[1].searchAttempts = sessions[1].searchAttempts
         ]_vars

C18_Witness ==
    /\ api.op = "stop" /\ api.isSearching
    /\ api.searchInterval = 2
    /\ sessions[1].searchAttempts >= 2
    /\ sessions[1].inflight = 1
    /\ win.timers = { }

\* C19: startAppointmentSearchAutomation(false) performs one search and
\* creates no interval timer.
C19_NotContinuousMeansNoTimer ==
    \A s \in Sessions :
        (sessions[s].pc = "done" /\ ~sessions[s].continuous) =>
            /\ TimersOf(s) = { }
            /\ ~sessions[s].isSearching
            /\ sessions[s].searchAttempts <= 1


\* C20: a startAutomation request of type personalInfo starts only the
\* personal-information automation in the page, and one of type
\* appointmentSearch only the appointment search.
C20_OnlyTheRequestedAutomation ==
    ( /\ bg.name = "startAutomation"
      /\ bg.type \in { "personalInfo", "appointmentSearch" } ) =>
        \A i \in 1..Len(bg.invoked) : bg.invoked[i] = FnFor(bg.type)

\* The searchForAppointment calls of a session that have not settled: the
\* initial search of start() and the attempts started by ticks.
AttemptsPending(s) ==
    sessions[s].inflight + (IF sessions[s].pc = "initialSearch" THEN 1 ELSE 0)

\* A search started through the controller is active from the moment the
\* controller starts it until start() has returned false, or, after start()
\* returned true, while its loop runs or an attempt is pending.
SearchActive(s) ==
    \/ sessions[s].pc \in { "loading", "filling", "initialSearch" }
    \/ sessions[s].isSearching
    \/ sessions[s].inflight > 0

\* C38: getStatus().appointmentSearchRunning is true exactly while an
\* appointment search started through the controller is active, and false
\* again after the search returned failure or its loop stopped;
\* personalInfoRunning is false while no personal-information automation is
\* in progress.
C38_StatusFollowsTheSearch ==
    /\ win.appointmentSearchRunning <=> (\E s \in Sessions : SearchActive(s))
    /\ (\A r \in Runs : runs[r].pc \in { "none", "returned" })
          => ~win.personalInfoRunning

\* C37: a startAutomation response has success = true only if an entry
\* point was found in the page and invoked; when the page has no such
\* function the response has success = false.
C37_SuccessOnlyWhenInvoked ==
    (bg.pc = "returned" /\ bg.name \in StartHandlers) =>
        /\ bg.responses[1].success = Bool(TRUE) => bg.invoked # << >>
        /\ bg.page = "none" => bg.responses[1].success = Bool(FALSE)

C35_AttemptsNeverExceedCap ==
    \A s \in Sessions :
        config.maxSearchAttempts > 0 =>
            sessions[s].searchAttempts <= config.maxSearchAttempts

C35_Witness ==
    \E s \in Sessions :
        /\ config.maxSearchAttempts = 3
        /\ sessions[s].searchAttempts = 3
        /\ sessions[s].inflight = 2
        /\ sessions[s].ticks >= 3
        /\ ~sessions[s].isSearching

UrlPollMs == 100
UrlSettleMs == 2000
\* timeouts.pageTransition is the default; a short one for a direct call.
UrlTimeouts == { 300, 5000 }
Urls == { "Principale.aspx", "Recherche.aspx" }

\* The executor of the promise: the URL is captured, the polling interval
\* and the timeout timer are set.
UrlWaitCall(t) ==
    /\ uw.pc = "none"
    /\ uw' = [NoUrlWait EXCEPT !.pc = "pending", !.timeout = t, !.start = now,
                               !.startUrl = href,
                               !.interval = TRUE, !.nextPoll = now + UrlPollMs,
                               !.timer = TRUE]
    /\ UNCHANGED <<now, href, pageVars, finderVars, idleVars, searchVars,
                   seqVars, bgVars, fillVars, cfgVars, injVars>>

\* The page changes its URL without leaving the document.
Navigate(u) ==
    /\ u # href
    /\ uw.pc = "pending"
    /\ href' = u
    /\ uw' = [uw EXCEPT !.differed = @ \/ (u # uw.startUrl)]
    /\ UNCHANGED <<now, pageVars, finderVars, idleVars, searchVars,
                   seqVars, bgVars, fillVars, cfgVars, injVars>>

\* resolve() and reject(): the first call settles the promise.
UrlSettled(call, how, t) ==
    [call EXCEPT !.pc = IF @ = "pending" THEN how ELSE @,
                 !.settledAt = IF call.pc = "pending" THEN t ELSE @,
                 !.resolves = IF how = "resolved" THEN @ + 1 ELSE @,
                 !.rejects = IF how = "rejected" THEN @ + 1 ELSE @]

\* (mutant) the poll that sees the change leaves the timeout timer set.
changeSeen_KeepsTimeout(call, t) ==
    [call EXCEPT !.interval = FALSE, !.nextPoll = 0,
                 !.observed = TRUE,
                 !.settleTimer = TRUE, !.settleAt = t + UrlSettleMs]

\* The body of the poll's if: clearInterval, clearTimeout and
\* setTimeout(resolve, 2000).
changeSeen(call, t) ==
    [call EXCEPT !.interval = FALSE, !.nextPoll = 0,
                 !.timer = FALSE, !.observed = TRUE,
                 !.settleTimer = TRUE, !.settleAt = t + UrlSettleMs]

\* The setInterval callback.
UrlPoll ==
    /\ uw.interval
    /\ now >= uw.nextPoll
    /\ uw' = IF href # uw.startUrl
             THEN changeSeen(uw, now)
             ELSE [uw EXCEPT !.nextPoll = @ + UrlPollMs]
    /\ UNCHANGED <<now, href, pageVars, finderVars, idleVars, searchVars,
                   seqVars, bgVars, fillVars, cfgVars, injVars>>

\* setTimeout(resolve, 2000) comes due.
UrlSettleDelay ==
    /\ uw.settleTimer
    /\ now >= uw.settleAt
    /\ uw' = UrlSettled([uw EXCEPT !.settleTimer = FALSE, !.settleAt = 0],
                        "resolved", now)
    /\ UNCHANGED <<now, href, pageVars, finderVars, idleVars, searchVars,
                   seqVars, bgVars, fillVars, cfgVars, injVars>>

\* (mutant) the timeout rejects and leaves the polling interval running.
timedOut_KeepsPolling(call, t) ==
    UrlSettled([call EXCEPT !.timer = FALSE], "rejected", t)

\* The body of the timeout callback: clearInterval, then reject.
timedOut(call, t) ==
    UrlSettled([call EXCEPT !.timer = FALSE, !.interval = FALSE,
                            !.nextPoll = 0], "rejected", t)

\* The setTimeout callback of the timeout.
UrlTimeout ==
    /\ uw.timer
    /\ now >= uw.start + uw.timeout
    /\ uw' = timedOut(uw, now)
    /\ UNCHANGED <<now, href, pageVars, finderVars, idleVars, searchVars,
                   seqVars, bgVars, fillVars, cfgVars, injVars>>

UrlTimerDue ==
    \/ uw.interval /\ now >= uw.nextPoll
    \/ uw.timer /\ now >= uw.start + uw.timeout
    \/ uw.settleTimer /\ now >= uw.settleAt

UrlTick ==
    /\ now < MaxUrlTime
    /\ ~UrlTimerDue
    /\ uw.interval \/ uw.timer \/ uw.settleTimer
    /\ now' = now + UrlPollMs
    /\ UNCHANGED <<urlVars, pageVars, finderVars, idleVars, searchVars,
                   seqVars, bgVars, fillVars, cfgVars, injVars>>

InitUrl ==
    /\ now = 0
    /\ PageAtRest
    /\ FinderAtRest
    /\ IdleAtRest
    /\ SearchAtRest
    /\ SeqAtRest
    /\ BgAtRest
    /\ FillAtRest
    /\ href \in Urls
    /\ uw = NoUrlWait
    /\ CfgAtRest
    /\ InjAtRest

UrlTimers == UrlPoll \/ UrlSettleDelay \/ UrlTimeout \/ UrlTick

NextUrl ==
    \/ \E t \in UrlTimeouts : UrlWaitCall(t)
    \/ \E u \in Urls : Navigate(u)
    \/ UrlPoll
    \/ UrlSettleDelay
    \/ UrlTimeout
    \/ UrlTick

\* The browser runs a timer that is due and the clock goes on.
SpecUrl == InitUrl /\ [][NextUrl]_vars /\ WF_vars(UrlTimers)

\* C21: if the URL never differs from the URL captured at call time, the
\* promise of waitForUrlChange(timeout) rejects; it does not reject earlier
\* than `timeout` ms after the call, and the polling interval is cleared at
\* the moment it rejects.
C21_UnchangedUrlRejectsAtTimeout ==
    /\ [](uw.pc = "rejected" =>
            /\ uw.settledAt >= uw.start + uw.timeout
            /\ ~uw.interval)
    /\ [](uw.pc = "pending" /\ ~uw.differed => now <= uw.start + uw.timeout)
    /\ (uw.pc = "pending") ~> (uw.pc = "rejected" \/ uw.differed)

\* The default timeout ran out on an unchanged URL.
C21_Witness ==
    /\ uw.pc = "rejected"
    /\ uw.timeout = 5000
    /\ ~uw.differed
    /\ now = uw.start + 5000

\* C22: waitForUrlChange settles exactly once: it resolves only if a poll
\* saw a URL different from the starting URL, a call whose poll saw the
\* change is never rejected, and resolve and reject are called once in all.
C22_SettlesOnce ==
    /\ uw.pc = "resolved" => uw.observed /\ uw.settledAt >= uw.start + UrlSettleMs
    /\ uw.observed => uw.pc # "rejected" /\ uw.rejects = 0
    /\ uw.resolves + uw.rejects <= 1
    /\ uw.pc \in { "resolved", "rejected" } <=> uw.resolves + uw.rejects = 1

\* The change was seen less than the settle delay before the timeout was
\* due, and the promise resolved after that time.
C22_Witness ==
    /\ uw.pc = "resolved"
    /\ uw.settledAt > uw.start + uw.timeout
    /\ uw.rejects = 0

(***************************************************************************)
(* The configuration under updateConfig alone                              *)
(***************************************************************************)
InitConfig ==
    /\ now = 0
    /\ PageAtRest
    /\ FinderAtRest
    /\ IdleAtRest
    /\ SearchAtRest
    /\ SeqAtRest
    /\ BgAtRest
    /\ FillAtRest
    /\ UrlAtRest
    /\ CfgAtRest
    /\ InjAtRest

NextConfig == \E partial \in Partials : UpdateConfig(partial)

SpecConfig == InitConfig /\ [][NextConfig]_vars

\* C36: after updateConfig(partial) every configuration field the partial
\* does not name has the value it had before, the other fields of a
\* section the partial supplies in part included.
C36_UnnamedFieldsKeepTheirValue ==
    cu.pc = "updated" =>
        \A k \in Keys \ cu.partial.named : acfg[k] = cu.before[k]

(***************************************************************************)
(* The injected script inject-automation.js                                *)
(***************************************************************************)
maxAttempts == 5

ReadyStates == << "loading", "interactive", "complete" >>

\* checkAndRunAutomation(), called by one of the script's three triggers:
\* the entry point is called when window.startAutomation is a function.
\* (The copy in src/background takes a type, which the last line of the
\* file leaves at its default "full", so it tests the same function.)
checkAndRunAutomation(j, trigger) ==
    IF j.fn THEN [ j EXCEPT !.calls = Append(@, trigger) ] ELSE j

\* The file is executed in the page: the immediate check, then the load
\* listener and the first delayed attempt are set up.
InjectAndRunAutomation ==
    /\ inj.pc = "none"
    /\ inj' = IF inj.fn
              THEN [ checkAndRunAutomation(inj, "immediate")
                       EXCEPT !.pc = "returned" ]
              ELSE [ inj EXCEPT !.pc = "initiated",
                                !.listener = (inj.readyState # "complete"),
                                !.timer = TRUE ]
    /\ UNCHANGED <<envVars, finderVars, idleVars, searchVars, seqVars, bgVars, fillVars, urlVars, cfgVars>>

\* The content script of the tab assigns window.startAutomation.
EntryPointExposed ==
    /\ ~inj.fn
    /\ inj' = [ inj EXCEPT !.fn = TRUE ]
    /\ UNCHANGED <<envVars, finderVars, idleVars, searchVars, seqVars, bgVars, fillVars, urlVars, cfgVars>>

\* The document moves on; when it is complete the window's load event is
\* dispatched and the listener, if the script added one, checks again.
DocumentLoads ==
    /\ inj.readyState # "complete"
    /\ LET next == IF inj.readyState = "loading" THEN "interactive"
                                                 ELSE "complete"
           j == [ inj EXCEPT !.readyState = next ]
       IN  inj' = IF next = "complete" /\ inj.listener
                  THEN checkAndRunAutomation(j, "load")
                  ELSE j
    /\ UNCHANGED <<envVars, finderVars, idleVars, searchVars, seqVars, bgVars, fillVars, urlVars, cfgVars>>

\* attemptWithDelay(), run by the pending setTimeout: it gives up after
\* maxAttempts, else counts the attempt, checks, and re-arms the timer only
\* when the check found nothing.
attemptWithDelay(j) ==
    IF j.attempts >= maxAttempts
    THEN [ j EXCEPT !.timer = FALSE, !.gaveUp = TRUE ]
    ELSE [ checkAndRunAutomation([ j EXCEPT !.attempts = @ + 1 ], "retry")
             EXCEPT !.timer = ~j.fn ]

RetryTimerFires ==
    /\ inj.timer
    /\ inj' = attemptWithDelay(inj)
    /\ UNCHANGED <<envVars, finderVars, idleVars, searchVars, seqVars, bgVars, fillVars, urlVars, cfgVars>>

InitInject ==
    /\ now = 0
    /\ PageAtRest
    /\ FinderAtRest
    /\ IdleAtRest
    /\ SearchAtRest
    /\ SeqAtRest
    /\ BgAtRest
    /\ FillAtRest
    /\ UrlAtRest
    /\ CfgAtRest
    /\ inj \in { [ NoInjection EXCEPT !.readyState = ReadyStates[i], !.fn = f ] :
                    i \in 1..3, f \in BOOLEAN }

NextInject ==
    \/ InjectAndRunAutomation
    \/ EntryPointExposed
    \/ DocumentLoads
    \/ RetryTimerFires

SpecInject == InitInject /\ [][NextInject]_vars

\* C33: one execution of the injected script calls the entry point at most
\* once, whichever of the immediate check, the load listener and the delayed
\* retries finds it, and makes at most 5 delayed retries.
C33_OneCallAtMostFiveRetries ==
    /\ Len(inj.calls) <= 1
    /\ inj.attempts <= maxAttempts

====
